---- MODULE Spec2Model ----
(***************************************************************************)
(* protoc-gen-interceptors: a protoc plugin that rewrites the gateway      *)
(* files (<name>.pb.gw.go) written by protoc-gen-grpc-gateway so that every *)
(* RPC of a service is routed through an optional grpc unary interceptor.  *)
(*                                                                         *)
(* The model follows src/main.go.  A syntax tree is a record tagged by the *)
(* name of its go/ast node type (field k); a statement list is a sequence. *)
(* The walk of astutil.Apply is modelled in post-order, one top-level      *)
(* declaration of the file per step; the body of a declaration is walked   *)
(* by the recursive operators ApplyNode / ApplyList inside that step.      *)
(***************************************************************************)
EXTENDS Integers, Sequences, FiniteSets, TLC

(***************************************************************************)
(* Bounds of the model.                                                    *)
(***************************************************************************)
\* the longest proto-file list of a CodeGeneratorRequest
MaxFiles == 2
\* how many times the plugin is invoked on the same output directory
MaxRuns == 2

(***************************************************************************)
(* Constants of src/main.go:22-69.                                         *)
(***************************************************************************)
protoExtension == ".proto"
errType == "error"
stringType == "string"
handlerResponseType == "handlerResponse"
unaryServerInterceptorSelector == "UnaryServerInterceptor"
serverMetadataSelector == "ServerMetadata"
messageSelector == "Message"
contextSelector == "Context"
requestSelector == "Request"
unaryServerInfoSelector == "UnaryServerInfo"
marshalerSelector == "Marshaler"
errorfSelector == "Errorf"
annotateIncomingContextSelector == "AnnotateIncomingContext"
handlerResponseItemVar == "handlerResponseItem"
interceptorVar == "interceptor"
handlerVar == "handler"
mdVar == "md"
respVar == "resp"
dataVar == "data"
okVar == "ok"
reqVar == "req"
errVar == "err"
ctxVar == "ctx"
annotatedContextVar == "annotatedContext"
inboundMarshalerVar == "inboundMarshaler"
nilVar == "nil"
serverVar == "server"
pathParamsVar == "pathParams"
protoPackage == "proto"
runtimePackage == "runtime"
grpcPackage == "grpc"
httpPackage == "http"
contextPackage == "context"
fmtPackage == "fmt"
serverStructField == "Server"
fullMethodStructField == "FullMethod"

(***************************************************************************)
(* Naming templates (fmt.Sprintf of the four templates of main.go:25-28).  *)
(***************************************************************************)
\* fmt.Sprintf(generatedFileTemplate, name)
generatedFileTemplate(name) == name \o ".pb.gw.go"
\* fmt.Sprintf(rootFunctionTemplate, service)
rootFunctionTemplate(service) == "Register" \o service \o "HandlerServer"
\* fmt.Sprintf(methodFunctionTemplate, service, method)
methodFunctionTemplate(service, method) ==
    "local_request_" \o service \o "_" \o method \o "_0"
\* fmt.Sprintf(generatedFunctionTemplate, prefix, name)
generatedFunctionTemplate(prefix, name) == prefix \o "_" \o name

\* strings.ReplaceAll(in, protoExtension, "")
RECURSIVE resolveProtoFileName(_)
resolveProtoFileName(in) ==
    LET n == Len(protoExtension) IN
    IF Len(in) < n THEN in
    ELSE IF SubSeq(in, 1, n) = protoExtension
         THEN resolveProtoFileName(SubSeq(in, n + 1, Len(in)))
         ELSE SubSeq(in, 1, 1) \o resolveProtoFileName(SubSeq(in, 2, Len(in)))

(***************************************************************************)
(* Helpers on sequences and maps.                                          *)
(***************************************************************************)
Range(s) == {s[i] : i \in DOMAIN s}
\* the sequences of a sequence, joined
RECURSIVE Concat(_)
Concat(ss) == IF ss = <<>> THEN <<>> ELSE Head(ss) \o Concat(Tail(ss))
EmptyMap == [x \in {} |-> x]
\* m[key] = val, as a Go map assignment (insert or overwrite)
MapPut(m, key, val) == [x \in (DOMAIN m) \cup {key} |-> IF x = key THEN val ELSE m[x]]
RemoveAt(s, i) == SubSeq(s, 1, i - 1) \o SubSeq(s, i + 1, Len(s))
ReplaceAt(s, i, v) == [s EXCEPT ![i] = v]

(***************************************************************************)
(* go/ast node constructors (main.go:326-340, 563-715).                    *)
(***************************************************************************)
\* the nil node (a nil ast.Stmt / ast.Expr)
NilNode == [k |-> "nil"]
genIdent(in) == [k |-> "Ident", Name |-> in]
\* the ast.Object attached by genIdentWithObj is not part of the printed tree
genIdentWithObj(in, kind) == [k |-> "Ident", Name |-> in]
getSelectorExpr(x, sel) == [k |-> "SelectorExpr", X |-> genIdent(x), Sel |-> sel]
getStarExpr(in) == [k |-> "StarExpr", X |-> in]
getParenExpr(expr) == [k |-> "ParenExpr", X |-> expr]
getUnaryExpr(op, expr) == [k |-> "UnaryExpr", Op |-> op, X |-> expr]
getBinaryExpr(op, x, y) == [k |-> "BinaryExpr", Op |-> op, X |-> genIdent(x), Y |-> genIdent(y)]
getTypeAssertExpr(x, typeOf) == [k |-> "TypeAssertExpr", X |-> x, Type |-> typeOf]
getCompositeLit(typeOf, eltItems) == [k |-> "CompositeLit", Type |-> typeOf, Elts |-> eltItems]
getKeyValExpr(key, val) == [k |-> "KeyValueExpr", Key |-> key, Value |-> val]
getBasicLit(kind, value) == [k |-> "BasicLit", Kind |-> kind, Value |-> value]
getCallExpr(fun, args) == [k |-> "CallExpr", Fun |-> fun, Args |-> args]
getReturnStmt(expr) == [k |-> "ReturnStmt", Results |-> expr]
\* a block statement is kept as the list of its statements
getBlockStmnt(in) == in
\* NOTE the parameter order of the source: the else branch comes third
getIfStmt(cond, init, elseItem, body) ==
    [k |-> "IfStmt", Init |-> init, Cond |-> cond,
     Body |-> getBlockStmnt(body), Else |-> getBlockStmnt(elseItem)]
getDeclStmt(tok, spec) == [k |-> "DeclStmt", Tok |-> tok, Spec |-> spec]
getStructType(fields) == [k |-> "StructType", Fields |-> fields]
AssignStmt(lhs, tok, rhs) == [k |-> "AssignStmt", Lhs |-> lhs, Tok |-> tok, Rhs |-> rhs]
ExprStmt(x) == [k |-> "ExprStmt", X |-> x]
Field(names, type) == [Names |-> names, Type |-> type]
FuncLit(params, results, body) ==
    [k |-> "FuncLit", Params |-> params, Results |-> results, Body |-> body]
FuncDecl(name, params, results, body) ==
    [k |-> "FuncDecl", Name |-> name, Params |-> params, Results |-> results, Body |-> body]
InterfaceType == [k |-> "InterfaceType"]
MapType(key, value) == [k |-> "MapType", Key |-> key, Value |-> value]

generateField(pointer, packageName, selectorName, names) ==
    LET base == IF packageName = "" THEN genIdent(selectorName)
                ELSE getSelectorExpr(packageName, selectorName)
    IN Field(names, IF pointer THEN getStarExpr(base) ELSE base)
getInterceptorField ==
    Field(<<interceptorVar>>, getStarExpr(getSelectorExpr(grpcPackage, unaryServerInterceptorSelector)))
getEmptyInterface(name) == Field(<<name>>, InterfaceType)

(***************************************************************************)
(* Metadata registry.  A protoFile is [filename, services]; a service is   *)
(* [name, method], method a sequence of method names.                      *)
(***************************************************************************)
\* main.go:312-324: root function name -> protoService
getRootFunctionsNames(input) ==
    LET names == {rootFunctionTemplate(input.services[i].name) : i \in DOMAIN input.services}
        \* the map keeps the last service written under a key
        lastIdx(n) == CHOOSE i \in DOMAIN input.services :
                         /\ rootFunctionTemplate(input.services[i].name) = n
                         /\ \A j \in DOMAIN input.services :
                              rootFunctionTemplate(input.services[j].name) = n => j <= i
    IN [n \in names |->
          [serviceName |-> input.services[lastIdx(n)].name,
           registerFunctionName |-> n,
           methods |-> input.services[lastIdx(n)].method]]

\* the expected call-site names, were only the first method of a service taken
getMethodsMap_firstMethod(in) ==
    UNION {{methodFunctionTemplate(in[i].serviceName, in[i].methods[j]) :
               j \in (DOMAIN in[i].methods) \cap {1}} : i \in DOMAIN in}

\* main.go:88-96: the set of expected call-site names (keys of the map)
getMethodsMap(in) ==
    UNION {{methodFunctionTemplate(in[i].serviceName, in[i].methods[j]) :
               j \in DOMAIN in[i].methods} : i \in DOMAIN in}

(***************************************************************************)
(* Wrapper synthesizer (main.go:342-561).                                  *)
(***************************************************************************)
\* the replacing statement, were the interceptor not handed on
generateAssignmentStatement_noInterceptor(funcName) ==
    AssignStmt(<<genIdent(mdVar), genIdent(respVar), genIdent(errVar)>>, ":=",
               <<getCallExpr(genIdent(funcName),
                             <<genIdent(ctxVar), genIdent(annotatedContextVar),
                               genIdent(inboundMarshalerVar), genIdent(serverVar),
                               genIdent(reqVar), genIdent(pathParamsVar)>>)>>)

\* main.go:342-359: the statement that replaces a matched call site
generateAssignmentStatement(funcName) ==
    AssignStmt(<<genIdent(mdVar), genIdent(respVar), genIdent(errVar)>>, ":=",
               <<getCallExpr(genIdent(funcName),
                             <<genIdent(ctxVar), genIdent(annotatedContextVar),
                               genIdent(inboundMarshalerVar), genIdent(serverVar),
                               genIdent(interceptorVar), genIdent(reqVar),
                               genIdent(pathParamsVar)>>)>>)

\* main.go:397-412: the parameter list of a wrapper
generateFunctionDeclarationParams(serverType) ==
    <<generateField(FALSE, contextPackage, contextSelector, <<ctxVar, annotatedContextVar>>),
      generateField(FALSE, runtimePackage, marshalerSelector, <<inboundMarshalerVar>>),
      generateField(FALSE, "", serverType, <<serverVar>>),
      generateField(TRUE, grpcPackage, unaryServerInterceptorSelector, <<interceptorVar>>),
      generateField(TRUE, httpPackage, requestSelector, <<reqVar>>),
      Field(<<pathParamsVar>>, MapType(genIdent(stringType), genIdent(stringType)))>>

\* main.go:413-417: the (named) results of a wrapper
generateFunctionDeclarationResults ==
    <<generateField(FALSE, runtimePackage, serverMetadataSelector, <<mdVar>>),
      generateField(FALSE, protoPackage, messageSelector, <<respVar>>),
      generateField(FALSE, "", errType, <<errVar>>)>>

\* main.go:538-549: type handlerResponse struct { md ...; resp ... }
generateStructDeclaration ==
    getDeclStmt("type",
        [Name |-> handlerResponseType,
         Type |-> getStructType(
            <<generateField(FALSE, runtimePackage, serverMetadataSelector, <<mdVar>>),
              generateField(FALSE, protoPackage, messageSelector, <<respVar>>)>>)])

\* main.go:551-561: var handlerResponseItem interface{}
generateInterfaceDeclaration ==
    getDeclStmt("var", [Name |-> handlerResponseItemVar, Type |-> InterfaceType])

\* main.go:480-536: handler := func(ctx context.Context, req interface{}) (interface{}, error) {...}
generateHandlerAssignment(funcData) ==
    AssignStmt(<<genIdentWithObj(handlerVar, "var")>>, ":=",
      <<FuncLit(
          <<generateField(FALSE, contextPackage, contextSelector, <<ctxVar>>),
            getEmptyInterface(reqVar)>>,
          <<getEmptyInterface(""), generateField(FALSE, "", errType, <<>>)>>,
          getBlockStmnt(
            <<getIfStmt(
                genIdent(okVar),
                AssignStmt(<<genIdentWithObj(reqVar, "var"), genIdentWithObj(okVar, "var")>>, ":=",
                           <<getTypeAssertExpr(genIdent(reqVar),
                                getStarExpr(getSelectorExpr(httpPackage, requestSelector)))>>),
                <<>>,
                <<funcData.assignStmt,
                  getReturnStmt(
                    <<getCompositeLit(genIdent(handlerResponseType),
                        <<getKeyValExpr(genIdent(respVar), genIdent(respVar)),
                          getKeyValExpr(genIdent(mdVar), genIdent(mdVar))>>),
                      genIdent(errVar)>>)>>),
              getReturnStmt(
                <<genIdent(nilVar),
                  getCallExpr(getSelectorExpr(fmtPackage, errorfSelector),
                    <<getBasicLit("STRING",
                        "\"error converting req to *" \o httpPackage \o ".Request\"")>>)>>)>>))>>)

\* main.go:465-476, the statement handed to getIfStmt as its body:
\* handlerResponseItem, err = handler(ctx, req)
handlerCallStmt ==
    AssignStmt(<<genIdent(handlerResponseItemVar), genIdent(errVar)>>, "=",
               <<getCallExpr(genIdent(handlerVar), <<genIdent(ctxVar), genIdent(reqVar)>>)>>)

\* main.go:447-464, the statement handed to getIfStmt as its else item:
\* handlerResponseItem, err = (*interceptor)(ctx, req, &grpc.UnaryServerInfo{...}, handler)
interceptorCallStmt(funcData) ==
    AssignStmt(<<genIdent(handlerResponseItemVar), genIdent(errVar)>>, "=",
      <<getCallExpr(
          getParenExpr(getStarExpr(genIdent(interceptorVar))),
          <<genIdent(ctxVar), genIdent(reqVar),
            getUnaryExpr("&", getCompositeLit(
                getSelectorExpr(grpcPackage, unaryServerInfoSelector),
                <<getKeyValExpr(genIdent(serverStructField), genIdent(serverVar)),
                  getKeyValExpr(genIdent(fullMethodStructField),
                                getBasicLit("STRING", funcData.rpcMethodName))>>)),
            genIdent(handlerVar)>>)>>)

\* the conditional, were its two branches handed over in the other order
generateIfInterceptorIsZeroStmt_swapped(funcData) ==
    getIfStmt(getBinaryExpr("==", interceptorVar, nilVar),
              NilNode,
              <<handlerCallStmt>>,
              <<interceptorCallStmt(funcData)>>)

\* main.go:443-478
generateIfInterceptorIsZeroStmt(funcData) ==
    getIfStmt(getBinaryExpr("==", interceptorVar, nilVar),
              NilNode,
              <<interceptorCallStmt(funcData)>>,
              <<handlerCallStmt>>)

\* the body, were the error check to return nil for the error
getFunctionDeclarationBody_dropError(funcData) ==
    getBlockStmnt(
      <<generateStructDeclaration,
        generateHandlerAssignment(funcData),
        generateInterfaceDeclaration,
        generateIfInterceptorIsZeroStmt(funcData),
        getIfStmt(getBinaryExpr("!=", errVar, nilVar), NilNode, <<>>,
                  <<getReturnStmt(<<genIdent(nilVar), genIdent(nilVar), genIdent(nilVar)>>)>>),
        AssignStmt(<<genIdentWithObj(dataVar, "var"), genIdentWithObj(okVar, "var")>>, ":=",
                   <<getTypeAssertExpr(genIdent(handlerResponseItemVar),
                                       genIdent(handlerResponseType))>>),
        getIfStmt(getUnaryExpr("!", genIdent(okVar)), NilNode, <<>>, <<getReturnStmt(<<>>)>>),
        getReturnStmt(<<getSelectorExpr(dataVar, mdVar), getSelectorExpr(dataVar, respVar),
                        genIdent(nilVar)>>)>>)

\* the body, were the check of the type assertion not negated
getFunctionDeclarationBody_returnWhenOk(funcData) ==
    getBlockStmnt(
      <<generateStructDeclaration,
        generateHandlerAssignment(funcData),
        generateInterfaceDeclaration,
        generateIfInterceptorIsZeroStmt(funcData),
        getIfStmt(getBinaryExpr("!=", errVar, nilVar), NilNode, <<>>, <<getReturnStmt(<<>>)>>),
        AssignStmt(<<genIdentWithObj(dataVar, "var"), genIdentWithObj(okVar, "var")>>, ":=",
                   <<getTypeAssertExpr(genIdent(handlerResponseItemVar),
                                       genIdent(handlerResponseType))>>),
        getIfStmt(genIdent(okVar), NilNode, <<>>, <<getReturnStmt(<<>>)>>),
        getReturnStmt(<<getSelectorExpr(dataVar, mdVar), getSelectorExpr(dataVar, respVar),
                        genIdent(nilVar)>>)>>)

\* main.go:421-441
getFunctionDeclarationBody(funcData) ==
    getBlockStmnt(
      <<generateStructDeclaration,
        generateHandlerAssignment(funcData),
        generateInterfaceDeclaration,
        generateIfInterceptorIsZeroStmt(funcData),
        getIfStmt(getBinaryExpr("!=", errVar, nilVar), NilNode, <<>>, <<getReturnStmt(<<>>)>>),
        AssignStmt(<<genIdentWithObj(dataVar, "var"), genIdentWithObj(okVar, "var")>>, ":=",
                   <<getTypeAssertExpr(genIdent(handlerResponseItemVar),
                                       genIdent(handlerResponseType))>>),
        getIfStmt(getUnaryExpr("!", genIdent(okVar)), NilNode, <<>>, <<getReturnStmt(<<>>)>>),
        getReturnStmt(<<getSelectorExpr(dataVar, mdVar), getSelectorExpr(dataVar, respVar),
                        genIdent(nilVar)>>)>>)

\* main.go:388-395
generateFunctionDeclaration(funcData, serverType) ==
    FuncDecl(funcData.funcName,
             generateFunctionDeclarationParams(serverType),
             generateFunctionDeclarationResults,
             getFunctionDeclarationBody(funcData))

(***************************************************************************)
(* Tree walker: the post-order callback of astutil.Apply (main.go:182-226) *)
(***************************************************************************)
\* main.go:266-270: the value of the last *ast.BasicLit among the direct
\* arguments, or the value held before when there is none
RECURSIVE lastBasicLit(_, _)
lastBasicLit(args, cur) ==
    IF args = <<>> THEN cur
    ELSE lastBasicLit(Tail(args),
                      IF Head(args).k = "BasicLit" THEN Head(args).Value ELSE cur)

\* the extraction, were the name kept once it is set
tryToExtractRPCMethodName_keepFirst(rpcMethodName, selectorExpr, callExpr) ==
    IF /\ rpcMethodName = ""
       /\ selectorExpr.X.k = "Ident"
       /\ selectorExpr.X.Name = runtimePackage
       /\ selectorExpr.Sel = annotateIncomingContextSelector
    THEN lastBasicLit(callExpr.Args, rpcMethodName)
    ELSE rpcMethodName

\* the extraction, were every function of the runtime package taken
tryToExtractRPCMethodName_anyMember(rpcMethodName, selectorExpr, callExpr) ==
    IF /\ selectorExpr.X.k = "Ident"
       /\ selectorExpr.X.Name = runtimePackage
    THEN lastBasicLit(callExpr.Args, rpcMethodName)
    ELSE rpcMethodName

\* main.go:259-274: the new value of *rpcMethodName
tryToExtractRPCMethodName(rpcMethodName, selectorExpr, callExpr) ==
    IF /\ selectorExpr.X.k = "Ident"
       /\ selectorExpr.X.Name = runtimePackage
       /\ selectorExpr.Sel = annotateIncomingContextSelector
    THEN lastBasicLit(callExpr.Args, rpcMethodName)
    ELSE rpcMethodName

\* the check, were only the first parameter looked at
checkIfFuncNeedField_firstField(funcDecl, fieldName) ==
    \A i \in (DOMAIN funcDecl.Params) \cap {1} :
        fieldName \notin Range(funcDecl.Params[i].Names)

\* main.go:276-290
checkIfFuncNeedField(funcDecl, fieldName) ==
    \A i \in DOMAIN funcDecl.Params : fieldName \notin Range(funcDecl.Params[i].Names)

\* main.go:292-306: the type of the first parameter named server whose type
\* is a plain identifier
resolveServerType(funcDecl) ==
    LET hits == {i \in DOMAIN funcDecl.Params :
                    /\ serverVar \in Range(funcDecl.Params[i].Names)
                    /\ funcDecl.Params[i].Type.k = "Ident"}
    IN IF hits = {} THEN ""
       ELSE funcDecl.Params[CHOOSE i \in hits : \A j \in hits : i <= j].Type.Name

\* The scan state threaded through the walk of one file:
\*   lastRPCMethodName, functions   the locals of main.go:155-157
\*   methods                        currentFileMethods (read only)
\*   log                            history: one entry per matched call site
ScanState(last, functions, methods, log) ==
    [lastRPCMethodName |-> last, functions |-> functions, methods |-> methods, log |-> log]

\* the match, were a call of a wrapper of the file's methods a call site too
matchCallSite_wrapperCalls(assignStmt, funcIdent, st) ==
    LET newFunctionName == generatedFunctionTemplate(interceptorVar, funcIdent.Name)
    IN IF \/ funcIdent.Name \in st.methods
          \/ newFunctionName \in DOMAIN st.functions
          \/ \E m \in st.methods :
                funcIdent.Name = generatedFunctionTemplate(interceptorVar, m)
       THEN [n |-> generateAssignmentStatement(newFunctionName),
             st |-> [st EXCEPT
                       !.functions = MapPut(@, newFunctionName,
                                        [rpcMethodName |-> st.lastRPCMethodName,
                                         assignStmt |-> assignStmt,
                                         funcName |-> newFunctionName]),
                       !.log = Append(@, [callee |-> funcIdent.Name,
                                          name |-> newFunctionName,
                                          rpc |-> st.lastRPCMethodName,
                                          orig |-> assignStmt])]]
       ELSE [n |-> assignStmt, st |-> st]

\* the match, were the first capture of a name kept
matchCallSite_firstWins(assignStmt, funcIdent, st) ==
    LET newFunctionName == generatedFunctionTemplate(interceptorVar, funcIdent.Name)
        isCurrentFileMethod == funcIdent.Name \in st.methods
        isNewGeneratedFunc == newFunctionName \in DOMAIN st.functions
    IN IF isCurrentFileMethod \/ isNewGeneratedFunc
       THEN [n |-> generateAssignmentStatement(newFunctionName),
             st |-> [st EXCEPT
                       !.functions = IF isNewGeneratedFunc THEN @
                                     ELSE MapPut(@, newFunctionName,
                                        [rpcMethodName |-> st.lastRPCMethodName,
                                         assignStmt |-> assignStmt,
                                         funcName |-> newFunctionName]),
                       !.log = Append(@, [callee |-> funcIdent.Name,
                                          name |-> newFunctionName,
                                          rpc |-> st.lastRPCMethodName,
                                          orig |-> assignStmt])]]
       ELSE [n |-> assignStmt, st |-> st]

\* the match, were the method name used up by it
matchCallSite_consume(assignStmt, funcIdent, st) ==
    LET newFunctionName == generatedFunctionTemplate(interceptorVar, funcIdent.Name)
    IN IF funcIdent.Name \in st.methods \/ newFunctionName \in DOMAIN st.functions
       THEN [n |-> generateAssignmentStatement(newFunctionName),
             st |-> [st EXCEPT
                       !.lastRPCMethodName = "",
                       !.functions = MapPut(@, newFunctionName,
                                        [rpcMethodName |-> st.lastRPCMethodName,
                                         assignStmt |-> assignStmt,
                                         funcName |-> newFunctionName]),
                       !.log = Append(@, [callee |-> funcIdent.Name,
                                          name |-> newFunctionName,
                                          rpc |-> st.lastRPCMethodName,
                                          orig |-> assignStmt])]]
       ELSE [n |-> assignStmt, st |-> st]

\* main.go:207-219: a call whose callee is a plain identifier
matchCallSite(assignStmt, funcIdent, st) ==
    LET newFunctionName == generatedFunctionTemplate(interceptorVar, funcIdent.Name)
        isCurrentFileMethod == funcIdent.Name \in st.methods
        isNewGeneratedFunc == newFunctionName \in DOMAIN st.functions
    IN IF isCurrentFileMethod \/ isNewGeneratedFunc
       THEN [n |-> generateAssignmentStatement(newFunctionName),
             st |-> [st EXCEPT
                       !.functions = MapPut(@, newFunctionName,
                                        [rpcMethodName |-> st.lastRPCMethodName,
                                         assignStmt |-> assignStmt,
                                         funcName |-> newFunctionName]),
                       !.log = Append(@, [callee |-> funcIdent.Name,
                                          name |-> newFunctionName,
                                          rpc |-> st.lastRPCMethodName,
                                          orig |-> assignStmt])]]
       ELSE [n |-> assignStmt, st |-> st]

\* main.go:201-223: the callback on an *ast.AssignStmt
postAssignStmt(assignStmt, st) ==
    IF Len(assignStmt.Rhs) = 1 /\ assignStmt.Rhs[1].k = "CallExpr"
    THEN LET callExpr == assignStmt.Rhs[1] IN
         IF callExpr.Fun.k = "SelectorExpr"
         THEN [n |-> assignStmt,
               st |-> [st EXCEPT !.lastRPCMethodName =
                          tryToExtractRPCMethodName(@, callExpr.Fun, callExpr)]]
         ELSE IF callExpr.Fun.k = "Ident"
              THEN matchCallSite(assignStmt, callExpr.Fun, st)
              ELSE [n |-> assignStmt, st |-> st]
    ELSE [n |-> assignStmt, st |-> st]

\* astutil.Apply below a declaration: children first, in the order of the
\* go/ast fields, then the callback on the node itself.  Only the node types
\* that can hold a statement are descended into; declarations inside a
\* DeclStmt, types and identifiers hold none.
RECURSIVE ApplyNode(_, _), ApplyList(_, _)
ApplyList(l, st) ==
    IF l = <<>> THEN [n |-> <<>>, st |-> st]
    ELSE LET h == ApplyNode(Head(l), st)
             t == ApplyList(Tail(l), h.st)
         IN [n |-> <<h.n>> \o t.n, st |-> t.st]
ApplyNode(node, st) ==
    CASE node.k = "AssignStmt" ->
           LET l == ApplyList(node.Lhs, st)
               r == ApplyList(node.Rhs, l.st)
           IN postAssignStmt([node EXCEPT !.Lhs = l.n, !.Rhs = r.n], r.st)
      [] node.k = "ExprStmt" ->
           LET x == ApplyNode(node.X, st)
           IN [n |-> [node EXCEPT !.X = x.n], st |-> x.st]
      [] node.k = "IfStmt" ->
           LET i == ApplyNode(node.Init, st)
               c == ApplyNode(node.Cond, i.st)
               b == ApplyList(node.Body, c.st)
               e == ApplyList(node.Else, b.st)
           IN [n |-> [node EXCEPT !.Init = i.n, !.Cond = c.n, !.Body = b.n, !.Else = e.n],
               st |-> e.st]
      [] node.k = "ReturnStmt" ->
           LET r == ApplyList(node.Results, st)
           IN [n |-> [node EXCEPT !.Results = r.n], st |-> r.st]
      [] node.k = "CallExpr" ->
           LET f == ApplyNode(node.Fun, st)
               a == ApplyList(node.Args, f.st)
           IN [n |-> [node EXCEPT !.Fun = f.n, !.Args = a.n], st |-> a.st]
      [] node.k = "FuncLit" ->
           LET b == ApplyList(node.Body, st)
           IN [n |-> [node EXCEPT !.Body = b.n], st |-> b.st]
      [] node.k \in {"ParenExpr", "StarExpr", "UnaryExpr", "TypeAssertExpr"} ->
           LET x == ApplyNode(node.X, st)
           IN [n |-> [node EXCEPT !.X = x.n], st |-> x.st]
      [] node.k = "CompositeLit" ->
           LET e == ApplyList(node.Elts, st)
           IN [n |-> [node EXCEPT !.Elts = e.n], st |-> e.st]
      [] node.k = "KeyValueExpr" ->
           LET a == ApplyNode(node.Key, st)
               v == ApplyNode(node.Value, a.st)
           IN [n |-> [node EXCEPT !.Key = a.n, !.Value = v.n], st |-> v.st]
      [] OTHER -> [n |-> node, st |-> st]

\* the callback, were no declaration ever deleted
postFuncDecl_keepAll(funcDecl, rootFunctions, functions, serverType) ==
    IF funcDecl.Name \in DOMAIN rootFunctions
    THEN [n |-> IF checkIfFuncNeedField(funcDecl, interceptorVar)
                THEN [funcDecl EXCEPT !.Params = Append(@, getInterceptorField)]
                ELSE funcDecl,
          deleted |-> FALSE,
          serverType |-> resolveServerType(funcDecl)]
    ELSE [n |-> funcDecl, deleted |-> FALSE, serverType |-> serverType]

\* the callback, were a server type once found kept
postFuncDecl_keepHint(funcDecl, rootFunctions, functions, serverType) ==
    IF funcDecl.Name \in DOMAIN rootFunctions
    THEN [n |-> IF checkIfFuncNeedField(funcDecl, interceptorVar)
                THEN [funcDecl EXCEPT !.Params = Append(@, getInterceptorField)]
                ELSE funcDecl,
          deleted |-> FALSE,
          serverType |-> IF resolveServerType(funcDecl) = "" THEN serverType
                         ELSE resolveServerType(funcDecl)]
    ELSE IF funcDecl.Name \in DOMAIN functions
         THEN [n |-> funcDecl, deleted |-> TRUE, serverType |-> serverType]
         ELSE [n |-> funcDecl, deleted |-> FALSE, serverType |-> serverType]

\* the callback, were every function that lacks the parameter patched
postFuncDecl_patchAll(funcDecl, rootFunctions, functions, serverType) ==
    IF funcDecl.Name \in DOMAIN rootFunctions \/ funcDecl.Name \notin DOMAIN functions
    THEN [n |-> IF checkIfFuncNeedField(funcDecl, interceptorVar)
                THEN [funcDecl EXCEPT !.Params = Append(@, getInterceptorField)]
                ELSE funcDecl,
          deleted |-> FALSE,
          serverType |-> IF funcDecl.Name \in DOMAIN rootFunctions
                         THEN resolveServerType(funcDecl) ELSE serverType]
    ELSE [n |-> funcDecl, deleted |-> TRUE, serverType |-> serverType]

\* main.go:186-200: the callback on an *ast.FuncDecl, run after its body has
\* been walked.  Result: the declaration (possibly patched), whether it is
\* deleted, and the server type (unchanged unless the function is a root).
postFuncDecl(funcDecl, rootFunctions, functions, serverType) ==
    IF funcDecl.Name \in DOMAIN rootFunctions
    THEN [n |-> IF checkIfFuncNeedField(funcDecl, interceptorVar)
                THEN [funcDecl EXCEPT !.Params = Append(@, getInterceptorField)]
                ELSE funcDecl,
          deleted |-> FALSE,
          serverType |-> resolveServerType(funcDecl)]
    ELSE IF funcDecl.Name \in DOMAIN functions
         THEN [n |-> funcDecl, deleted |-> TRUE, serverType |-> serverType]
         ELSE [n |-> funcDecl, deleted |-> FALSE, serverType |-> serverType]

(***************************************************************************)
(* Request decoding and emission (main.go:98-121, 233-256).                *)
(***************************************************************************)
\* main.go:98-104: a map with one key for each distinct string, every value nil
stringToMap(in) == [key \in Range(in) |-> nilVar]

\* the selection, were files without services not passed over
resolveProtoFilesFromCodeGeneratorRequest_keepEmpty(request) ==
    LET protoFilesMap == stringToMap(request.fileToGenerate)
        keep(file) == file.name \in DOMAIN protoFilesMap
        kept == SelectSeq(request.protoFile, keep)
    IN [j \in DOMAIN kept |-> [filename |-> kept[j].name, services |-> kept[j].service]]

\* main.go:106-121
resolveProtoFilesFromCodeGeneratorRequest(request) ==
    LET protoFilesMap == stringToMap(request.fileToGenerate)
        keep(file) == Len(file.service) # 0 /\ file.name \in DOMAIN protoFilesMap
        kept == SelectSeq(request.protoFile, keep)
    IN [j \in DOMAIN kept |-> [filename |-> kept[j].name, services |-> kept[j].service]]

\* main.go:169: fmt.Sprintf("%s/%s", outDir, fmt.Sprintf(generatedFileTemplate, ...))
generatedFileNameOf(outDir, filename) ==
    outDir \o "/" \o generatedFileTemplate(resolveProtoFileName(filename))

\* main.go:235: astutil.AddImport(fSet, fileAst, "fmt")
AddImport(fileAst, pkg) == [fileAst EXCEPT !.Imports = @ \cup {pkg}]

\* What go/printer writes for a parameter list and go/parser reads back: an
\* identifier with an empty name prints as nothing, so a field whose type is
\* the empty identifier joins the names of the field that follows it.
RECURSIVE reparseFields(_)
reparseFields(fields) ==
    IF Len(fields) < 2 THEN fields
    ELSE IF fields[1].Type = genIdent("")
         THEN reparseFields(<<Field(fields[1].Names \o fields[2].Names, fields[2].Type)>>
                            \o SubSeq(fields, 3, Len(fields)))
         ELSE <<fields[1]>> \o reparseFields(Tail(fields))

\* main.go:237: printer.Fprint; the text is represented by the tree a parser
\* reads from it
printerFprint(fileAst) ==
    [fileAst EXCEPT !.Decls =
        [j \in DOMAIN fileAst.Decls |->
            IF fileAst.Decls[j].k = "FuncDecl"
            THEN [fileAst.Decls[j] EXCEPT !.Params = reparseFields(@)]
            ELSE fileAst.Decls[j]]]

\* the FullMethod literal of a declaration of the wrapper shape
wrapperLiteral(decl) == decl.Body[4].Else[1].Rhs[1].Args[3].X.Elts[2].Value.Value
\* the statement spliced into the handler closure of a wrapper
wrapperSplice(decl) == decl.Body[2].Rhs[1].Body[1].Body[1]
\* a declaration built by generateFunctionDeclaration
isWrapperShape(decl) ==
    /\ decl.k = "FuncDecl"
    /\ Len(decl.Body) = 8
    /\ decl.Body[1] = generateStructDeclaration
    /\ decl.Body[3] = generateInterfaceDeclaration

\* main.go:242: format.Source fails on text that is not valid Go; the one
\* such text this program can print is an empty FullMethod literal
formatSourceFails(fileAst) ==
    \E j \in DOMAIN fileAst.Decls :
        /\ isWrapperShape(fileAst.Decls[j])
        /\ wrapperLiteral(fileAst.Decls[j]) = ""

(***************************************************************************)
(* Inputs: the proto files of a request and the gateway files on disk, as  *)
(* protoc-gen-grpc-gateway writes them, with the variations a file can     *)
(* carry (an earlier wrapper left in the file, a repeated or missing call  *)
(* site, a missing annotation, a root function already patched).           *)
(***************************************************************************)
\* outDir, as resolved from the request parameter
OutDir == "gen"

\* a.proto: one service, two methods
ProtoA == [name |-> "a.proto", service |-> <<[name |-> "S", method |-> <<"A", "B">>]>>]
\* b.proto: two services; Q_T/M and Q/T_M derive the same call-site name
ProtoB == [name |-> "b.proto",
           service |-> <<[name |-> "Q_T", method |-> <<"M">>],
                         [name |-> "Q", method |-> <<"T_M", "C">>]>>]
\* z.proto: messages only
ProtoZ == [name |-> "z.proto", service |-> <<>>]
Catalogue == {ProtoA, ProtoB, ProtoZ}

\* the string literal "/<service>/<method>", quotes included as in BasicLit.Value
RpcLit(service, method) == "\"/" \o service \o "/" \o method \o "\""

\* annotatedContext, err = runtime.AnnotateIncomingContext(ctx, mux, req, lit, runtime.WithHTTPPathPattern("/v1"))
AnnotateStmt(lit) ==
    AssignStmt(<<genIdent(annotatedContextVar), genIdent(errVar)>>, "=",
        <<getCallExpr(getSelectorExpr(runtimePackage, annotateIncomingContextSelector),
            <<genIdent(ctxVar), genIdent("mux"), genIdent(reqVar), getBasicLit("STRING", lit),
              getCallExpr(getSelectorExpr(runtimePackage, "WithHTTPPathPattern"),
                          <<getBasicLit("STRING", "\"/v1\"")>>)>>)>>)

\* resp, md, err := <callee>(annotatedContext, inboundMarshaler, server, req, pathParams)
CallSiteStmt(callee) ==
    AssignStmt(<<genIdent(respVar), genIdent(mdVar), genIdent(errVar)>>, ":=",
        <<getCallExpr(genIdent(callee),
            <<genIdent(annotatedContextVar), genIdent(inboundMarshalerVar),
              genIdent(serverVar), genIdent(reqVar), genIdent(pathParamsVar)>>)>>)

\* inboundMarshaler, outboundMarshaler := runtime.MarshalerForRequest(mux, req)
MarshalerStmt ==
    AssignStmt(<<genIdent(inboundMarshalerVar), genIdent("outboundMarshaler")>>, ":=",
        <<getCallExpr(getSelectorExpr(runtimePackage, "MarshalerForRequest"),
                      <<genIdent("mux"), genIdent(reqVar)>>)>>)

\* md.HeaderMD, md.TrailerMD = metadata.Join(...), stream.Trailer()
JoinStmt ==
    AssignStmt(<<getSelectorExpr(mdVar, "HeaderMD"), getSelectorExpr(mdVar, "TrailerMD")>>, "=",
        <<getCallExpr(getSelectorExpr("metadata", "Join"), <<getSelectorExpr(mdVar, "HeaderMD")>>),
          getCallExpr(getSelectorExpr("stream", "Trailer"), <<>>)>>)

\* mux.Handle("POST", pattern, func(w, req, pathParams) { ... }): one handler
\* of a root function; ann = "" leaves the annotation out, call = "" the call
HandlerBlock(ann, call) ==
    ExprStmt(getCallExpr(getSelectorExpr("mux", "Handle"),
        <<getBasicLit("STRING", "\"POST\""), genIdent("pattern"),
          FuncLit(<<Field(<<"w">>, getSelectorExpr(httpPackage, "ResponseWriter")),
                    generateField(TRUE, httpPackage, requestSelector, <<reqVar>>),
                    Field(<<pathParamsVar>>, MapType(genIdent(stringType), genIdent(stringType)))>>,
                  <<>>,
                  <<MarshalerStmt>>
                  \o (IF ann = "" THEN <<>> ELSE <<AnnotateStmt(ann)>>)
                  \o (IF call = "" THEN <<>> ELSE <<CallSiteStmt(call)>>)
                  \o <<JoinStmt>>)>>))

\* the parameter lists a root function may have
RootParams(serverType) ==
    <<generateField(FALSE, contextPackage, contextSelector, <<ctxVar>>),
      generateField(TRUE, runtimePackage, "ServeMux", <<"mux">>),
      generateField(FALSE, "", serverType, <<serverVar>>)>>
RootParamsPatched(serverType) == Append(RootParams(serverType), getInterceptorField)
RootParamsNoServer ==
    <<generateField(FALSE, contextPackage, contextSelector, <<ctxVar>>),
      generateField(TRUE, runtimePackage, "ServeMux", <<"mux">>),
      generateField(FALSE, "pb", "SServer", <<"srv">>)>>

\* a root function whose server parameter has a qualified type
RootParamsQualified ==
    <<generateField(FALSE, contextPackage, contextSelector, <<ctxVar>>),
      generateField(TRUE, runtimePackage, "ServeMux", <<"mux">>),
      generateField(FALSE, "pb", "QServer", <<serverVar>>)>>

\* func Register<Service>HandlerServer(params) error { blocks; return nil }
RootDecl(service, params, blocks) ==
    FuncDecl(rootFunctionTemplate(service), params,
             <<generateField(FALSE, "", errType, <<>>)>>,
             blocks \o <<getReturnStmt(<<genIdent(nilVar)>>)>>)

\* func local_request_<S>_<M>_0(...): the low-level function of a method
LocalDecl(service, method) ==
    FuncDecl(methodFunctionTemplate(service, method),
             <<generateField(FALSE, contextPackage, contextSelector, <<ctxVar>>),
               generateField(FALSE, "", service \o "Server", <<serverVar>>)>>,
             <<>>,
             <<AssignStmt(<<genIdent("msg"), genIdent(errVar)>>, ":=",
                   <<getCallExpr(getSelectorExpr(serverVar, method), <<genIdent(ctxVar)>>)>>),
               getReturnStmt(<<genIdent("msg"), genIdent(errVar)>>)>>)

\* statements that resemble the annotation of a handler without being one:
\* another receiver, no literal argument, two right-hand sides, no assignment
ResemblingStmts(service) ==
    <<AssignStmt(<<genIdent(annotatedContextVar), genIdent(errVar)>>, "=",
          <<getCallExpr(getSelectorExpr("other", annotateIncomingContextSelector),
               <<genIdent(ctxVar), getBasicLit("STRING", RpcLit(service, "other"))>>)>>),
      AssignStmt(<<genIdent(annotatedContextVar), genIdent(errVar)>>, "=",
          <<getCallExpr(getSelectorExpr(runtimePackage, annotateIncomingContextSelector),
               <<genIdent(ctxVar), genIdent("mux"), genIdent(reqVar)>>)>>),
      AssignStmt(<<genIdent(annotatedContextVar), genIdent(errVar)>>, "=",
          <<getCallExpr(getSelectorExpr(runtimePackage, annotateIncomingContextSelector),
               <<genIdent(ctxVar), getBasicLit("STRING", RpcLit(service, "pair"))>>),
            genIdent(nilVar)>>),
      ExprStmt(getCallExpr(getSelectorExpr(runtimePackage, annotateIncomingContextSelector),
               <<genIdent(ctxVar), getBasicLit("STRING", RpcLit(service, "expr"))>>))>>

\* func Register<Service>HandlerClient(...): calls request_<S>_<M>_0 after
\* runtime.AnnotateContext; none of it is a target of the rewrite
ClientDecl(service, method) ==
    FuncDecl("Register" \o service \o "HandlerClient",
             <<generateField(FALSE, contextPackage, contextSelector, <<ctxVar>>),
               generateField(FALSE, "", service \o "Client", <<"client">>)>>,
             <<generateField(FALSE, "", errType, <<>>)>>,
             <<AssignStmt(<<genIdent(annotatedContextVar), genIdent(errVar)>>, "=",
                   <<getCallExpr(getSelectorExpr(runtimePackage, "AnnotateContext"),
                        <<genIdent(ctxVar), getBasicLit("STRING", RpcLit(service, "client"))>>)>>)>>
             \o ResemblingStmts(service)
             \o <<AssignStmt(<<genIdent(respVar), genIdent(mdVar), genIdent(errVar)>>, ":=",
                   <<getCallExpr(genIdent("request_" \o service \o "_" \o method \o "_0"),
                                 <<genIdent(annotatedContextVar)>>)>>),
               getReturnStmt(<<genIdent(nilVar)>>)>>)

\* var ( pattern = ... ): a declaration that is no function
VarDecl == [k |-> "GenDecl", Tok |-> "var"]

\* a declaration with the name of a wrapper, written by hand: no call site in it
HandWrittenDecl(name) ==
    FuncDecl(name, <<>>, <<>>, <<getReturnStmt(<<>>)>>)

\* a wrapper as an earlier run of this program left it
EarlierWrapper(service, method, serverType) ==
    generateFunctionDeclaration(
        [funcName |-> generatedFunctionTemplate(interceptorVar, methodFunctionTemplate(service, method)),
         rpcMethodName |-> RpcLit(service, method),
         assignStmt |-> CallSiteStmt(methodFunctionTemplate(service, method))],
        serverType)

File(decls) == [k |-> "File", Imports |-> {"context", "http", "runtime"}, Decls |-> decls]
\* text the parser rejects, and no file at all
Garbage == [k |-> "Garbage"]
Missing == [k |-> "Missing"]

\* The gateway files a.proto may have on disk
ABlocks ==
    LET fA == methodFunctionTemplate("S", "A")
        fB == methodFunctionTemplate("S", "B")
        lA == RpcLit("S", "A")
        lB == RpcLit("S", "B")
    IN [canonical |-> <<HandlerBlock(lA, fA), HandlerBlock(lB, fB)>>,
        repeated  |-> <<HandlerBlock(lA, fA), HandlerBlock(lB, fA)>>,
        shared    |-> <<HandlerBlock(lA, fA), HandlerBlock("", fB)>>,
        early     |-> <<HandlerBlock("", fA), HandlerBlock(lB, fB)>>,
        orphan    |-> <<HandlerBlock(lA, ""), HandlerBlock(lB, fB)>>]
AFile(pre, params, blocks, post) ==
    File(<<VarDecl, LocalDecl("S", "A")>> \o pre
         \o <<RootDecl("S", params, blocks), ClientDecl("S", "A")>> \o post)
AWrapperName == generatedFunctionTemplate(interceptorVar, methodFunctionTemplate("S", "A"))
AStale == {<<HandWrittenDecl(AWrapperName)>>, <<EarlierWrapper("S", "A", "SServer")>>}
ATrees ==
    {AFile(<<>>, RootParams("SServer"), ABlocks[b], <<>>) : b \in DOMAIN ABlocks}
    \cup {AFile(<<>>, p, ABlocks.canonical, <<>>) :
             p \in {RootParamsPatched("SServer"), RootParamsNoServer}}
    \cup {AFile(d, RootParams("SServer"), ABlocks.canonical, <<>>) : d \in AStale}
    \cup {AFile(<<>>, RootParams("SServer"), ABlocks.canonical, d) : d \in AStale}

\* The gateway files b.proto may have on disk
BFile(blocksQ, paramsQ) ==
    File(<<VarDecl,
           RootDecl("Q_T", RootParams("Q_TServer"),
                    <<HandlerBlock(RpcLit("Q_T", "M"), methodFunctionTemplate("Q_T", "M"))>>),
           RootDecl("Q", paramsQ, blocksQ)>>)
BTrees ==
    LET fTM == methodFunctionTemplate("Q", "T_M")
        fC == methodFunctionTemplate("Q", "C")
    IN {BFile(<<HandlerBlock(RpcLit("Q", "T_M"), fTM), HandlerBlock(RpcLit("Q", "C"), fC)>>,
              RootParams("QServer")),
        BFile(<<HandlerBlock("", fC)>>, RootParams("QServer")),
        BFile(<<HandlerBlock(RpcLit("Q", "C"), fC)>>, RootParamsQualified)}

\* the contents the gateway file of a proto file may have when the plugin starts
Contents(file) ==
    IF file = ProtoA THEN ATrees \cup {Garbage}
    ELSE IF file = ProtoB THEN BTrees \cup {Garbage}
    ELSE {Missing}
\* the content of a gateway file the request does not ask to generate
Untouched(file) ==
    IF file = ProtoA THEN AFile(<<>>, RootParams("SServer"), ABlocks.canonical, <<>>)
    ELSE Missing

\* sequences without repetition of at most n proto files
RECURSIVE FileLists(_)
FileLists(n) ==
    IF n = 0 THEN {<<>>}
    ELSE LET shorter == FileLists(n - 1)
         IN shorter \cup {Append(l, f) : l \in shorter, f \in Catalogue} 
NoRepeat(l) == \A a, b \in DOMAIN l : a # b => l[a] # l[b]
\* the names of the files of l that are in the set wanted, in the order of l
NamesIn(l, wanted) ==
    LET chosen == SelectSeq(l, LAMBDA f : f.name \in wanted)
    IN [j \in DOMAIN chosen |-> chosen[j].name]
Reverse(g) == [j \in DOMAIN g |-> g[Len(g) + 1 - j]]
\* file_to_generate names files of the proto-file list: in the order of that
\* list, or in the opposite order with the first of its names once more
Requests ==
    UNION {UNION {{[protoFile |-> l, fileToGenerate |-> NamesIn(l, wanted)],
                   [protoFile |-> l, fileToGenerate |->
                       LET g == Reverse(NamesIn(l, wanted))
                       IN IF g = <<>> THEN g ELSE Append(g, g[1])]} :
                  wanted \in SUBSET {l[j].name : j \in DOMAIN l}} :
           l \in {x \in FileLists(MaxFiles) : NoRepeat(x)}}

(***************************************************************************)
(* The program state.                                                      *)
(***************************************************************************)
VARIABLES
    request,        \* the CodeGeneratorRequest read from stdin
    disk,           \* gateway file name -> its content
    run,            \* the number of the current invocation of the plugin
    pc,             \* the position of main / processSingleProto
    protoFileList,  \* main.go:145
    i,              \* the loop index of main.go:147
    loc,            \* the locals of processSingleProto
    hist,           \* history: the parse attempts and the writes so far
    frame           \* one call of a synthesized wrapper, statement by statement

vars == <<request, disk, run, pc, protoFileList, i, loc, hist, frame>>

\* the locals of processSingleProto before a file is taken up
NoLocals ==
    [lastRPCMethodName |-> "", serverType |-> "", functions |-> EmptyMap,
     rootFunctions |-> EmptyMap, currentFileMethods |-> {},
     generatedFileName |-> "", fileAst |-> NilNode,
     idx |-> 0, appended |-> {}, formatted |-> NilNode,
     log |-> <<>>, visits |-> <<>>]

\* processSingleProto returns: its frame is dead.  The three scan variables
\* keep the value they had (nothing reads them again), the rest is dropped.
Returned(l) ==
    [NoLocals EXCEPT !.lastRPCMethodName = l.lastRPCMethodName,
                     !.serverType = l.serverType,
                     !.functions = l.functions]

\* the locals, were the three scan variables declared once for all files
processSingleProtoLocals_shared(singleFile) ==
    LET rootFunctions == getRootFunctionsNames(singleFile)
    IN [NoLocals EXCEPT
          !.lastRPCMethodName = loc.lastRPCMethodName,
          !.serverType = loc.serverType,
          !.functions = loc.functions,
          !.rootFunctions = rootFunctions,
          !.currentFileMethods = getMethodsMap(rootFunctions),
          !.generatedFileName = generatedFileNameOf(OutDir, singleFile.filename)]

\* main.go:153-169: the locals when processSingleProto takes up singleFile
processSingleProtoLocals(singleFile) ==
    LET rootFunctions == getRootFunctionsNames(singleFile)
    IN [NoLocals EXCEPT
          !.rootFunctions = rootFunctions,
          !.currentFileMethods = getMethodsMap(rootFunctions),
          !.generatedFileName = generatedFileNameOf(OutDir, singleFile.filename)]

GatewayName(file) == generatedFileNameOf(OutDir, file.name)
\* the contents of the gateway file of a proto file when the plugin starts:
\* any of Contents when the request asks to generate the file
OnDisk(req, file) ==
    IF file \in Range(req.protoFile) /\ file.name \in Range(req.fileToGenerate)
    THEN Contents(file) ELSE {Untouched(file)}
\* what the parser read: the file is not written before the transform is over
InputOf(l) == disk[l.generatedFileName]

\* no wrapper is being called
NoFrame == [status |-> "none"]

Init ==
    /\ request \in Requests
    /\ \E a \in OnDisk(request, ProtoA), b \in OnDisk(request, ProtoB) :
          disk = [n \in {GatewayName(f) : f \in Catalogue} |->
                    IF n = GatewayName(ProtoA) THEN a
                    ELSE IF n = GatewayName(ProtoB) THEN b
                    ELSE Missing]
    /\ run = 1
    /\ pc = "main"
    /\ protoFileList = <<>>
    /\ i = 0
    /\ loc = NoLocals
    /\ hist = [parsed |-> <<>>, written |-> <<>>]
    /\ frame = NoFrame

\* main.go:131-145: read and decode the request; either may fail
Main ==
    /\ pc = "main"
    /\ \E decoded \in BOOLEAN :
          IF decoded
          THEN /\ protoFileList' = resolveProtoFilesFromCodeGeneratorRequest(request)
               /\ i' = 1
               /\ pc' = "loop"
          ELSE /\ pc' = "exit"
               /\ UNCHANGED <<protoFileList, i>>
    /\ UNCHANGED <<frame, request, disk, run, loc, hist>>

\* main.go:147-148, 153-169: the next file of the list is taken up
ProcessSingleProto ==
    /\ pc = "loop"
    /\ i <= Len(protoFileList)
    /\ loc' = processSingleProtoLocals(protoFileList[i])
    /\ pc' = "parse"
    /\ UNCHANGED <<frame, request, disk, run, protoFileList, i, hist>>

\* main.go:149-150: the list is exhausted
MainReturn ==
    /\ pc = "loop"
    /\ i > Len(protoFileList)
    /\ pc' = "exit"
    /\ UNCHANGED <<frame, request, disk, run, protoFileList, i, loc, hist>>

\* the parse step, were a failure to end the whole run
ParseFile_abort ==
    /\ pc = "parse"
    /\ LET content == disk[loc.generatedFileName]
           ok == content.k = "File"
       IN /\ hist' = [hist EXCEPT !.parsed =
                        Append(@, [run |-> run, name |-> loc.generatedFileName, ok |-> ok])]
          /\ IF ok
             THEN /\ loc' = [loc EXCEPT !.fileAst = content, !.idx = 1]
                  /\ pc' = "walk"
                  /\ i' = i
             ELSE /\ pc' = "exit"
                  /\ i' = i
                  /\ loc' = Returned(loc)
    /\ UNCHANGED <<frame, request, disk, run, protoFileList>>

\* main.go:171-180: parser.ParseFile; on an error processSingleProto returns
ParseFile ==
    /\ pc = "parse"
    /\ LET content == disk[loc.generatedFileName]
           ok == content.k = "File"
       IN /\ hist' = [hist EXCEPT !.parsed =
                        Append(@, [run |-> run, name |-> loc.generatedFileName, ok |-> ok])]
          /\ IF ok
             THEN /\ loc' = [loc EXCEPT !.fileAst = content, !.idx = 1]
                  /\ pc' = "walk"
                  /\ i' = i
             ELSE /\ pc' = "loop"
                  /\ i' = i + 1
                  /\ loc' = Returned(loc)
    /\ UNCHANGED <<frame, request, disk, run, protoFileList>>

\* main.go:182-226: the walk reaches the next top-level declaration: its
\* body is walked, then the callback runs on the declaration itself
VisitDecl ==
    /\ pc = "walk"
    /\ loc.appended = {}
    /\ Len(loc.visits) < Len(InputOf(loc).Decls)
    /\ loc.idx <= Len(loc.fileAst.Decls)
    /\ LET decl == loc.fileAst.Decls[loc.idx]
           st0 == ScanState(loc.lastRPCMethodName, loc.functions,
                            loc.currentFileMethods, loc.log)
           body == IF decl.k = "FuncDecl" THEN ApplyList(decl.Body, st0)
                   ELSE [n |-> <<>>, st |-> st0]
           post == IF decl.k = "FuncDecl"
                   THEN postFuncDecl([decl EXCEPT !.Body = body.n], loc.rootFunctions,
                                     body.st.functions, loc.serverType)
                   ELSE [n |-> decl, deleted |-> FALSE, serverType |-> loc.serverType]
           visit == [isRoot |-> decl.k = "FuncDecl" /\ decl.Name \in DOMAIN loc.rootFunctions,
                     captured |-> decl.k = "FuncDecl" /\ decl.Name \in DOMAIN body.st.functions,
                     deleted |-> post.deleted]
       IN loc' = [loc EXCEPT
                    !.lastRPCMethodName = body.st.lastRPCMethodName,
                    !.functions = body.st.functions,
                    !.log = body.st.log,
                    !.serverType = post.serverType,
                    !.fileAst.Decls = IF post.deleted THEN RemoveAt(@, loc.idx)
                                      ELSE ReplaceAt(@, loc.idx, post.n),
                    !.idx = IF post.deleted THEN @ ELSE @ + 1,
                    !.visits = Append(@, visit)]
    /\ UNCHANGED <<frame, request, disk, run, pc, protoFileList, i, hist>>

\* main.go:229-231: one iteration of the loop over the map; Go visits the
\* entries of a map in an order it does not fix
AppendWrapper ==
    /\ pc = "walk"
    /\ Len(loc.visits) = Len(InputOf(loc).Decls)
    /\ \E key \in DOMAIN loc.functions \ loc.appended :
          loc' = [loc EXCEPT
                    !.fileAst.Decls = Append(@, generateFunctionDeclaration(
                                                    loc.functions[key], loc.serverType)),
                    !.appended = @ \cup {key}]
    /\ UNCHANGED <<frame, request, disk, run, pc, protoFileList, i, hist>>

\* the walk and the loop of main.go:229-231 are over
Transformed ==
    /\ pc = "walk"
    /\ Len(loc.visits) = Len(InputOf(loc).Decls)
    /\ loc.appended = DOMAIN loc.functions

\* main.go:233-240: AddImport, then printer.Fprint into the buffer
PrintFile ==
    /\ Transformed
    /\ \E failed \in BOOLEAN :
          IF failed
          THEN /\ pc' = "loop"
               /\ i' = i + 1
               /\ loc' = Returned(loc)
          ELSE /\ pc' = "format"
               /\ i' = i
               /\ loc' = [loc EXCEPT !.fileAst = AddImport(@, fmtPackage)]
    /\ UNCHANGED <<frame, request, disk, run, protoFileList, hist>>

\* the format step, were its error not looked at
Format_ignoreError ==
    /\ pc = "format"
    /\ pc' = "print2"
    /\ i' = i
    /\ loc' = [loc EXCEPT !.formatted = printerFprint(loc.fileAst)]
    /\ UNCHANGED <<frame, request, disk, run, protoFileList, hist>>

\* main.go:242-246: format.Source of the printed text
Format ==
    /\ pc = "format"
    /\ IF formatSourceFails(loc.fileAst)
       THEN /\ pc' = "loop"
            /\ i' = i + 1
            /\ loc' = Returned(loc)
       ELSE /\ pc' = "print2"
            /\ i' = i
            /\ loc' = [loc EXCEPT !.formatted = printerFprint(loc.fileAst)]
    /\ UNCHANGED <<frame, request, disk, run, protoFileList, hist>>

\* main.go:248-251: the tree is printed into the buffer a second time
PrintAgain ==
    /\ pc = "print2"
    /\ \E failed \in BOOLEAN :
          IF failed
          THEN pc' = "loop" /\ i' = i + 1 /\ loc' = Returned(loc)
          ELSE pc' = "write" /\ i' = i /\ loc' = loc
    /\ UNCHANGED <<frame, request, disk, run, protoFileList, hist>>

\* main.go:253-256: os.WriteFile of the formatted text
WriteFile ==
    /\ pc = "write"
    /\ \E failed \in BOOLEAN :
          IF failed
          THEN UNCHANGED <<disk, hist>>
          ELSE /\ disk' = [disk EXCEPT ![loc.generatedFileName] = loc.formatted]
               /\ hist' = [hist EXCEPT !.written =
                             Append(@, [run |-> run, name |-> loc.generatedFileName])]
    /\ pc' = "loop"
    /\ i' = i + 1
    /\ loc' = Returned(loc)
    /\ UNCHANGED <<frame, request, run, protoFileList>>

\* the build invokes the plugin again on the same request and directory
Rerun ==
    /\ pc = "exit"
    /\ run < MaxRuns
    /\ run' = run + 1
    /\ pc' = "main"
    /\ protoFileList' = <<>>
    /\ i' = 0
    /\ loc' = NoLocals
    /\ UNCHANGED <<frame, request, disk, hist>>

\* one invocation of the plugin on a request of several proto files
Next ==
    \/ Main
    \/ ProcessSingleProto
    \/ MainReturn
    \/ ParseFile
    \/ VisitDecl
    \/ AppendWrapper
    \/ PrintFile
    \/ Format
    \/ PrintAgain
    \/ WriteFile

Spec == Init /\ [][Next]_vars

\* repeated invocations of the plugin for one proto file
InitRerun ==
    /\ Init
    /\ Len(request.protoFile) = 1
    /\ request.fileToGenerate = <<request.protoFile[1].name>>
    /\ request.protoFile[1] # ProtoZ

NextRerun ==
    \/ Main
    \/ ProcessSingleProto
    \/ MainReturn
    \/ ParseFile
    \/ VisitDecl
    \/ AppendWrapper
    \/ PrintFile
    \/ Format
    \/ PrintAgain
    \/ WriteFile
    \/ Rerun

SpecRerun == InitRerun /\ [][NextRerun]_vars

(***************************************************************************)
(* A call of a synthesized wrapper.  The body built by                     *)
(* getFunctionDeclarationBody is executed one top-level statement at a     *)
(* time with the meaning Go gives it.  A value is a record tagged t.       *)
(***************************************************************************)
NilValue == [t |-> "nil"]
Plain(name) == [t |-> name]
ErrorValue(what) == [t |-> "error", v |-> what]
BoolValue(b) == [t |-> "bool", v |-> b]
\* the value of a string literal: the text between its quotes
StringValue(lit) == [t |-> "string", v |-> SubSeq(lit, 2, Len(lit) - 1)]
\* the zero value of a struct type with the fields md and resp
ZeroStruct(name) == [t |-> name, fields |-> [f \in {mdVar, respVar} |-> NilValue]]

\* the unary interceptors a gateway may be given: none, one that calls the
\* handler with what it got, one that refuses, one that answers by itself,
\* and one that calls the handler with a request of its own
Interceptors == {"nil", "passthrough", "deny", "replace", "wrongReq"}
\* what the original local_request function returns: a response or an error
Outcomes == {"ok", "err"}
ServerTypes == {"SServer", ""}
\* the captures a wrapper is generated from
Captures ==
    {[funcName |-> generatedFunctionTemplate(interceptorVar, methodFunctionTemplate("S", m)),
      rpcMethodName |-> RpcLit("S", m),
      assignStmt |-> CallSiteStmt(methodFunctionTemplate("S", m))] : m \in {"A", "B"}}

\* the names a field list declares, in order
NamesOf(fields) == Concat([a \in DOMAIN fields |-> fields[a].Names])
TypeName(typeOf) == IF typeOf.k = "SelectorExpr" THEN typeOf.Sel ELSE typeOf.Name

\* the value of an expression in a scope (a function from names to values)
RECURSIVE EvalExpr(_, _)
EvalExpr(e, scope) ==
    CASE e.k = "Ident" -> IF e.Name = nilVar THEN NilValue ELSE scope[e.Name]
      [] e.k = "BasicLit" -> StringValue(e.Value)
      [] e.k = "UnaryExpr" /\ e.Op = "&" -> EvalExpr(e.X, scope)
      [] e.k = "UnaryExpr" /\ e.Op = "!" -> BoolValue(~EvalExpr(e.X, scope).v)
      [] e.k = "BinaryExpr" /\ e.Op = "==" ->
           BoolValue(EvalExpr(e.X, scope) = EvalExpr(e.Y, scope))
      [] e.k = "BinaryExpr" /\ e.Op = "!=" ->
           BoolValue(EvalExpr(e.X, scope) # EvalExpr(e.Y, scope))
      [] e.k = "CompositeLit" ->
           [t |-> TypeName(e.Type),
            fields |-> [f \in {e.Elts[j].Key.Name : j \in DOMAIN e.Elts} |->
                          EvalExpr(e.Elts[CHOOSE j \in DOMAIN e.Elts : e.Elts[j].Key.Name = f].Value,
                                   scope)]]
      [] e.k = "SelectorExpr" -> scope[e.X.Name].fields[e.Sel]
      [] e.k = "TypeAssertExpr" -> EvalExpr(e.X, scope)
EvalArgs(args, scope) == [j \in DOMAIN args |-> EvalExpr(args[j], scope)]

\* a scope with the names of lhs bound to the values, position by position
Bind(scope, lhs, values) ==
    [n \in DOMAIN scope \cup {lhs[j].Name : j \in DOMAIN lhs} |->
        IF \E j \in DOMAIN lhs : lhs[j].Name = n
        THEN values[CHOOSE j \in DOMAIN lhs : lhs[j].Name = n]
        ELSE scope[n]]

\* the original function returns (response, metadata, error)
Original(low) ==
    IF low = "ok" THEN <<Plain("response"), Plain("metadata"), NilValue>>
    ELSE <<NilValue, Plain("metadata"), ErrorValue("rpc")>>

\* main.go:480-536 at run time: the handler closure called with args.
\*   if req, ok := req.(*http.Request); ok { <spliced>; return handlerResponse{...}, err }
\*   return nil, fmt.Errorf(...)
CallHandler(closure, args, scope, low, by) ==
    LET guard == closure.lit.Body[1]
        params == NamesOf(closure.lit.Params)
        inner == Bind(scope, [j \in DOMAIN params |-> genIdent(params[j])], args)
        asserted == EvalExpr(guard.Init.Rhs[1], inner).t = "httpRequest"
        own == Bind(inner, guard.Init.Lhs,
                    <<EvalExpr(guard.Init.Rhs[1], inner), BoolValue(asserted)>>)
        spliced == guard.Body[1]
        after == Bind(own, spliced.Lhs, Original(low))
        results == IF EvalExpr(guard.Cond, own).v THEN guard.Body[2].Results
                   ELSE <<genIdent(nilVar), genIdent(nilVar)>>
        out == IF EvalExpr(guard.Cond, own).v
               THEN [val |-> EvalExpr(results[1], after), err |-> EvalExpr(results[2], after)]
               ELSE [val |-> NilValue, err |-> ErrorValue("convert")]
    IN [val |-> out.val,
        err |-> out.err,
        trace |-> <<[fn |-> handlerVar, by |-> by, args |-> args, ret |-> out]>>
                  \o (IF EvalExpr(guard.Cond, own).v
                      THEN <<[fn |-> spliced.Rhs[1].Fun.Name, by |-> handlerVar,
                              args |-> EvalArgs(spliced.Rhs[1].Args, own),
                              ret |-> [val |-> Original(low)[1], err |-> Original(low)[3]]]>>
                      ELSE <<>>)]

\* the interceptor called with (ctx, req, info, handler)
CallInterceptor(kind, args, scope, low) ==
    CASE kind = "passthrough" ->
           CallHandler(args[4], <<args[1], args[2]>>, scope, low, interceptorVar)
      [] kind = "wrongReq" ->
           CallHandler(args[4], <<args[1], Plain("other")>>, scope, low, interceptorVar)
      [] kind = "deny" -> [val |-> NilValue, err |-> ErrorValue("denied"), trace |-> <<>>]
      [] kind = "replace" -> [val |-> Plain("foreign"), err |-> NilValue, trace |-> <<>>]

\* an assignment, a declaration or a return of the wrapper body
ExecSimple(stmt, fr) ==
    CASE stmt.k = "DeclStmt" ->
           IF stmt.Tok = "var"
           THEN [fr EXCEPT !.scope = Bind(@, <<genIdent(stmt.Spec.Name)>>, <<NilValue>>)]
           ELSE fr
      [] stmt.k = "ReturnStmt" ->
           LET names == NamesOf(fr.decl.Results)
           IN [fr EXCEPT !.status = "returned",
                         !.result = [n \in Range(names) |->
                                       IF stmt.Results = <<>> THEN fr.scope[n]
                                       ELSE EvalExpr(stmt.Results[CHOOSE j \in DOMAIN names :
                                                                     names[j] = n], fr.scope)]]
      [] stmt.k = "AssignStmt" /\ stmt.Rhs[1].k = "FuncLit" ->
           [fr EXCEPT !.scope = Bind(@, stmt.Lhs, <<[t |-> "closure", lit |-> stmt.Rhs[1]]>>)]
      [] stmt.k = "AssignStmt" /\ stmt.Rhs[1].k = "TypeAssertExpr" ->
           LET val == EvalExpr(stmt.Rhs[1].X, fr.scope)
               ok == val.t = TypeName(stmt.Rhs[1].Type)
           IN [fr EXCEPT !.scope = Bind(@, stmt.Lhs,
                    <<IF ok THEN val ELSE ZeroStruct(TypeName(stmt.Rhs[1].Type)),
                      BoolValue(ok)>>)]
      [] stmt.k = "AssignStmt" /\ stmt.Rhs[1].k = "CallExpr" ->
           LET call == stmt.Rhs[1]
               args == EvalArgs(call.Args, fr.scope)
               target == IF call.Fun.k = "Ident" THEN fr.scope[call.Fun.Name]
                         ELSE fr.scope[call.Fun.X.X.Name]
           IN IF target.t = "nil"
              THEN [fr EXCEPT !.status = "panic"]
              ELSE IF target.t = "closure"
              THEN LET out == CallHandler(target, args, fr.scope, fr.low, "wrapper")
                   IN [fr EXCEPT !.scope = Bind(@, stmt.Lhs, <<out.val, out.err>>),
                                 !.trace = @ \o out.trace]
              ELSE LET out == CallInterceptor(target.v, args, fr.scope, fr.low)
                   IN [fr EXCEPT
                         !.scope = Bind(@, stmt.Lhs, <<out.val, out.err>>),
                         !.trace = @ \o <<[fn |-> interceptorVar, by |-> "wrapper",
                                           args |-> args,
                                           ret |-> [val |-> out.val, err |-> out.err]]>>
                                     \o out.trace]

RECURSIVE ExecBranch(_, _)
ExecBranch(stmts, fr) ==
    IF stmts = <<>> \/ fr.status # "running" THEN fr
    ELSE ExecBranch(Tail(stmts), ExecSimple(Head(stmts), fr))
\* one top-level statement
ExecStmt(stmt, fr) ==
    IF stmt.k = "IfStmt"
    THEN IF EvalExpr(stmt.Cond, fr.scope).v THEN ExecBranch(stmt.Body, fr)
         ELSE ExecBranch(stmt.Else, fr)
    ELSE ExecSimple(stmt, fr)

\* the scope of a wrapper when it is entered: its parameters hold what the
\* gateway passes, its named results are zero
WrapperScope(decl, interceptor) ==
    [n \in Range(NamesOf(decl.Params)) \cup Range(NamesOf(decl.Results)) |->
        IF n \in Range(NamesOf(decl.Results)) THEN NilValue
        ELSE IF n = interceptorVar
             THEN IF interceptor = "nil" THEN NilValue
                  ELSE [t |-> "interceptor", v |-> interceptor]
        ELSE IF n = reqVar THEN Plain("httpRequest")
        ELSE Plain(n)]

\* the gateway calls a wrapper
CallWrapper ==
    /\ frame.status = "none"
    /\ \E funcData \in Captures, serverType \in ServerTypes,
          interceptor \in Interceptors, low \in Outcomes :
          LET decl == generateFunctionDeclaration(funcData, serverType)
          IN frame' = [status |-> "running", decl |-> decl, funcData |-> funcData,
                       ip |-> 1, interceptor |-> interceptor, low |-> low,
                       scope |-> WrapperScope(decl, interceptor),
                       trace |-> <<>>, result |-> EmptyMap]
    /\ UNCHANGED <<request, disk, run, pc, protoFileList, i, loc, hist>>

\* the wrapper executes its next top-level statement
WrapperStep ==
    /\ frame.status = "running"
    /\ frame' = [ExecStmt(frame.decl.Body[frame.ip], frame) EXCEPT !.ip = @ + 1]
    /\ UNCHANGED <<request, disk, run, pc, protoFileList, i, loc, hist>>

\* the wrapper has returned, or the goroutine has panicked
WrapperReturn ==
    /\ frame.status \in {"returned", "panic"}
    /\ frame' = NoFrame
    /\ UNCHANGED <<request, disk, run, pc, protoFileList, i, loc, hist>>

\* a gateway built from the output, serving requests
InitWrapper ==
    /\ request = [protoFile |-> <<ProtoA>>, fileToGenerate |-> <<ProtoA.name>>]
    /\ disk = [n \in {GatewayName(f) : f \in Catalogue} |-> Missing]
    /\ run = 1
    /\ pc = "exit"
    /\ protoFileList = <<>>
    /\ i = 0
    /\ loc = NoLocals
    /\ hist = [parsed |-> <<>>, written |-> <<>>]
    /\ frame = NoFrame

NextWrapper ==
    \/ CallWrapper
    \/ WrapperStep
    \/ WrapperReturn

SpecWrapper == InitWrapper /\ [][NextWrapper]_vars

(***************************************************************************)
(* Reading a tree, for the properties below.                               *)
(***************************************************************************)
\* the assignments below a node, in the order the walk reaches them
RECURSIVE AssignsOf(_), AssignsOfList(_)
AssignsOfList(l) ==
    IF l = <<>> THEN <<>> ELSE AssignsOf(Head(l)) \o AssignsOfList(Tail(l))
AssignsOf(node) ==
    CASE node.k = "AssignStmt" ->
           AssignsOfList(node.Lhs) \o AssignsOfList(node.Rhs) \o <<node>>
      [] node.k = "ExprStmt" -> AssignsOf(node.X)
      [] node.k = "IfStmt" ->
           AssignsOf(node.Init) \o AssignsOf(node.Cond)
           \o AssignsOfList(node.Body) \o AssignsOfList(node.Else)
      [] node.k = "ReturnStmt" -> AssignsOfList(node.Results)
      [] node.k = "CallExpr" -> AssignsOf(node.Fun) \o AssignsOfList(node.Args)
      [] node.k = "FuncLit" -> AssignsOfList(node.Body)
      [] node.k \in {"ParenExpr", "StarExpr", "UnaryExpr", "TypeAssertExpr"} -> AssignsOf(node.X)
      [] node.k = "CompositeLit" -> AssignsOfList(node.Elts)
      [] node.k = "KeyValueExpr" -> AssignsOf(node.Key) \o AssignsOf(node.Value)
      [] OTHER -> <<>>

\* an assignment whose one right-hand side is a call of a plain identifier
IsIdentCall(s) ==
    /\ s.k = "AssignStmt"
    /\ Len(s.Rhs) = 1
    /\ s.Rhs[1].k = "CallExpr"
    /\ s.Rhs[1].Fun.k = "Ident"
Callee(s) == s.Rhs[1].Fun.Name
\* an assignment whose one right-hand side calls runtime.AnnotateIncomingContext
IsAnnotate(s) ==
    /\ s.k = "AssignStmt"
    /\ Len(s.Rhs) = 1
    /\ s.Rhs[1].k = "CallExpr"
    /\ s.Rhs[1].Fun = [k |-> "SelectorExpr", X |-> [k |-> "Ident", Name |-> "runtime"],
                       Sel |-> "AnnotateIncomingContext"]
IsLit(a) == a.k = "BasicLit"
\* the literals among the direct arguments of an annotation
AnnotateLits(s) == SelectSeq(s.Rhs[1].Args, IsLit)

\* the call sites below a statement list, in the order the walk reaches
\* them: the callee, and the literal of the annotation that stands right
\* before the call site in the same list ("" when none does)
RECURSIVE SitesOf(_), SitesOfList(_, _)
SitesOfList(l, j) ==
    IF j > Len(l) THEN <<>>
    ELSE SitesOf(l[j])
         \o (IF IsIdentCall(l[j])
             THEN <<[callee |-> Callee(l[j]),
                     ann |-> IF j > 1 /\ IsAnnotate(l[j - 1]) /\ Len(AnnotateLits(l[j - 1])) = 1
                             THEN AnnotateLits(l[j - 1])[1].Value ELSE ""]>>
             ELSE <<>>)
         \o SitesOfList(l, j + 1)
SitesOf(node) ==
    CASE node.k = "AssignStmt" -> SitesOfList(node.Lhs, 1) \o SitesOfList(node.Rhs, 1)
      [] node.k = "ExprStmt" -> SitesOf(node.X)
      [] node.k = "IfStmt" ->
           SitesOfList(<<node.Init>>, 1) \o SitesOf(node.Cond)
           \o SitesOfList(node.Body, 1) \o SitesOfList(node.Else, 1)
      [] node.k = "ReturnStmt" -> SitesOfList(node.Results, 1)
      [] node.k = "CallExpr" -> SitesOf(node.Fun) \o SitesOfList(node.Args, 1)
      [] node.k = "FuncLit" -> SitesOfList(node.Body, 1)
      [] node.k \in {"ParenExpr", "StarExpr", "UnaryExpr", "TypeAssertExpr"} -> SitesOf(node.X)
      [] node.k = "CompositeLit" -> SitesOfList(node.Elts, 1)
      [] node.k = "KeyValueExpr" -> SitesOf(node.Key) \o SitesOf(node.Value)
      [] OTHER -> <<>>

BodyOf(decl) == IF decl.k = "FuncDecl" THEN decl.Body ELSE <<>>
\* the call sites and the assignments of a whole file
SitesOfFile(file) == Concat([j \in DOMAIN file.Decls |-> SitesOfList(BodyOf(file.Decls[j]), 1)])
AssignsOfFile(file) == Concat([j \in DOMAIN file.Decls |-> AssignsOfList(BodyOf(file.Decls[j]))])

\* the file being processed, its descriptor, and the names derived from it
In == InputOf(loc)
Out == loc.fileAst
Current == protoFileList[i]
ExpectedNames(file) ==
    UNION {{"local_request_" \o file.services[a].name \o "_" \o file.services[a].method[b] \o "_0" :
               b \in DOMAIN file.services[a].method} : a \in DOMAIN file.services}
RootNames(file) ==
    {"Register" \o file.services[a].name \o "HandlerServer" : a \in DOMAIN file.services}
WrapperName(callee) == "interceptor_" \o callee
RECURSIVE SumLen(_)
SumLen(ss) == IF ss = <<>> THEN 0 ELSE Len(Head(ss).method) + SumLen(Tail(ss))
\* M: the methods of the file, over all its services
MethodCount(file) == SumLen(file.services)

\* the declarations of the output that the walk kept, and those appended
KeptDecls == SubSeq(Out.Decls, 1, Len(Out.Decls) - Cardinality(loc.appended))
AppendedDecls == SubSeq(Out.Decls, Len(Out.Decls) - Cardinality(loc.appended) + 1, Len(Out.Decls))
\* the indexes of the input declarations the walk did not delete, in order
NotDeleted(j) == ~loc.visits[j].deleted
KeptIdx == SelectSeq([j \in DOMAIN loc.visits |-> j], NotDeleted)
CountNamed(decls, name) ==
    Cardinality({j \in DOMAIN decls : decls[j].k = "FuncDecl" /\ decls[j].Name = name})
IsSite(a) == IsIdentCall(a) /\ Callee(a) \in ExpectedNames(Current)
\* the first input declaration whose body calls the function wrapped by name
\* (0 when none does)
FirstMatch(name) ==
    LET hits == {j \in DOMAIN In.Decls :
                    \E e \in Range(SitesOfList(BodyOf(In.Decls[j]), 1)) :
                        e.callee \in ExpectedNames(Current) /\ WrapperName(e.callee) = name}
    IN IF hits = {} THEN 0 ELSE CHOOSE j \in hits : \A h \in hits : j <= h
WrapperLits(name) ==
    {wrapperLiteral(AppendedDecls[j]) :
        j \in {x \in DOMAIN AppendedDecls : AppendedDecls[x].Name = name}}

(***************************************************************************)
(* Properties.                                                             *)
(***************************************************************************)
\* two files that differ at most in the order of their wrapper declarations
SameUpToWrapperOrder(t1, t2) ==
    LET notWrapper(d) == ~isWrapperShape(d)
        count(t, d) == Cardinality({j \in DOMAIN t.Decls : t.Decls[j] = d})
    IN /\ t1.Imports = t2.Imports
       /\ Len(t1.Decls) = Len(t2.Decls)
       /\ SelectSeq(t1.Decls, notWrapper) = SelectSeq(t2.Decls, notWrapper)
       /\ \A d \in Range(t1.Decls) \cup Range(t2.Decls) : count(t1, d) = count(t2, d)
\* the file being processed was written by an earlier run of the plugin
WrittenBefore == \E w \in Range(hist.written) : w.name = loc.generatedFileName

\* C1: idempotence of the whole pipeline.  When the file a run reads is the
\* file an earlier run wrote (same request), the text the run is about to
\* write holds the same declarations as the text it read: same root
\* parameter lists, same call sites, same wrappers (name, server type,
\* FullMethod literal, spliced assignment), whatever the order of the wrappers.
C1_Idempotent ==
    (pc = "write" /\ WrittenBefore) => SameUpToWrapperOrder(loc.formatted, In)

\* C2 as stated: whenever an annotation with the literal L stands right
\* before a call site of local_request_<Svc>_<Method>_0 of the file's
\* metadata, the wrapper appended for that function carries exactly L.
C2_LiteralOfEveryPair ==
    Transformed =>
        LET sites == SitesOfFile(In) IN
        \A j \in DOMAIN sites :
            (sites[j].ann # "" /\ sites[j].callee \in ExpectedNames(Current))
                => WrapperLits(WrapperName(sites[j].callee)) = {sites[j].ann}

\* C2 amended: the wrapper carries exactly L when, in addition, no later
\* assignment of the file (in the order of the walk) calls the same
\* local_request function: of several call sites of one function the last
\* one decides the literal.
C2_LiteralOfLastPair ==
    Transformed =>
        LET sites == SitesOfFile(In) IN
        \A j \in DOMAIN sites :
            (/\ sites[j].ann # ""
             /\ sites[j].callee \in ExpectedNames(Current)
             /\ \A h \in DOMAIN sites : h > j => sites[h].callee # sites[j].callee)
                => WrapperLits(WrapperName(sites[j].callee)) = {sites[j].ann}

\* C2 witness: a run has appended the wrappers of a file in which two call
\* sites of different methods each follow their own annotation
C2_Witness ==
    /\ Transformed
    /\ LET sites == SitesOfFile(In) IN
       \E j, h \in DOMAIN sites :
          /\ j < h
          /\ sites[j].ann # "" /\ sites[h].ann # "" /\ sites[j].ann # sites[h].ann
          /\ sites[j].callee \in ExpectedNames(Current)
          /\ sites[h].callee \in ExpectedNames(Current)
          /\ sites[j].callee # sites[h].callee
          /\ WrapperLits(WrapperName(sites[j].callee)) = {sites[j].ann}

\* every method's call site stands exactly once in the file read
EachSiteOnce ==
    LET sites == SitesOfFile(In) IN
    \A n \in ExpectedNames(Current) :
        Cardinality({j \in DOMAIN sites : sites[j].callee = n}) = 1
\* the assignments of the kept declarations that call a wrapper of the file
RewrittenSites ==
    LET as == Concat([j \in DOMAIN KeptDecls |-> AssignsOfList(BodyOf(KeptDecls[j]))])
    IN {j \in DOMAIN as :
           IsIdentCall(as[j])
           /\ Callee(as[j]) \in {WrapperName(n) : n \in ExpectedNames(Current)}}
AppendedNames == {AppendedDecls[j].Name : j \in DOMAIN AppendedDecls}

\* C3 as stated: with M methods in the file's services and every method's
\* call site standing exactly once, one run rewrites exactly M call sites
\* and appends exactly M wrappers, one per method.
C3_CountsAreM ==
    (Transformed /\ EachSiteOnce) =>
        /\ Len(loc.log) = MethodCount(Current)
        /\ Cardinality(RewrittenSites) = MethodCount(Current)
        /\ Len(AppendedDecls) = MethodCount(Current)
        /\ AppendedNames = {WrapperName(n) : n \in ExpectedNames(Current)}

\* C3 amended: the count is the number D of distinct call-site names of the
\* methods (two methods such as Q_T/M and Q/T_M derive one name): D call
\* sites are rewritten and D wrappers appended, one per name.
C3_CountsAreDistinctNames ==
    (Transformed /\ EachSiteOnce) =>
        LET D == Cardinality(ExpectedNames(Current)) IN
        /\ Len(loc.log) = D
        /\ Cardinality(RewrittenSites) = D
        /\ Len(AppendedDecls) = D
        /\ AppendedNames = {WrapperName(n) : n \in ExpectedNames(Current)}
        /\ \A n \in AppendedNames : CountNamed(AppendedDecls, n) = 1

\* C3 witness: the wrappers of a file of two services are appended, every
\* call site standing once
C3_Witness ==
    /\ Transformed
    /\ EachSiteOnce
    /\ Len(Current.services) = 2
    /\ Len(AppendedDecls) = 2

\* the parameters of a declaration that are named interceptor
InterceptorParams(decl) ==
    Concat([a \in DOMAIN decl.Params |->
               SelectSeq(decl.Params[a].Names, LAMBDA n : n = "interceptor")])
IsRootDecl(decl) == decl.k = "FuncDecl" /\ decl.Name \in RootNames(Current)

\* C4: every root function kept by the walk has exactly one parameter named
\* interceptor: the parameter list is the one read, with the interceptor
\* parameter appended at its end when no parameter of that name was there;
\* when the file read was written by an earlier run, nothing is appended.
C4_InterceptorParamOnce ==
    Transformed =>
        \A p \in DOMAIN KeptDecls :
            IsRootDecl(In.Decls[KeptIdx[p]]) =>
                LET before == In.Decls[KeptIdx[p]].Params
                    after == KeptDecls[p].Params
                IN /\ Len(InterceptorParams(KeptDecls[p])) = 1
                   /\ after = IF Len(InterceptorParams(In.Decls[KeptIdx[p]])) = 0
                              THEN Append(before,
                                     [Names |-> <<"interceptor">>,
                                      Type |-> [k |-> "StarExpr",
                                                X |-> [k |-> "SelectorExpr",
                                                       X |-> [k |-> "Ident", Name |-> "grpc"],
                                                       Sel |-> "UnaryServerInterceptor"]]])
                              ELSE before
                   /\ WrittenBefore => after = before

\* C4 witness: a second run has walked the file the first run wrote, whose
\* root function ends with the interceptor parameter
C4_Witness ==
    /\ Transformed
    /\ run = 2
    /\ WrittenBefore
    /\ \E p \in DOMAIN KeptDecls :
          /\ IsRootDecl(KeptDecls[p])
          /\ KeptDecls[p].Params[Len(KeptDecls[p].Params)].Names = <<"interceptor">>
          /\ Len(KeptDecls[p].Params) = 4

IsNamed(decl, name) == decl.k = "FuncDecl" /\ decl.Name = name

\* C5 as stated: whenever a run appends a wrapper named W, every declaration
\* named W of the file read has been deleted and the output declares W once.
C5_EveryOldDeclarationPurged ==
    Transformed =>
        \A W \in AppendedNames :
            /\ \A j \in DOMAIN In.Decls : IsNamed(In.Decls[j], W) => loc.visits[j].deleted
            /\ CountNamed(Out.Decls, W) = 1

\* C5 amended: a declaration named W of the file read is deleted exactly
\* when a call site that generates W stands in its own body or in a
\* declaration before it; one that stands before the first such call site,
\* with no such call in its body, is kept, and the output then declares W
\* once more for each declaration kept.
C5_OldDeclarationPurgedAfterMatch ==
    Transformed =>
        \A W \in AppendedNames :
            LET old == {j \in DOMAIN In.Decls : IsNamed(In.Decls[j], W)}
                early == {j \in old : j < FirstMatch(W)}
            IN /\ \A j \in old : loc.visits[j].deleted <=> j \notin early
               /\ CountNamed(Out.Decls, W) = 1 + Cardinality(early)

\* C5 witness: a wrapper is appended for a file that held a declaration of
\* the same name after its call site; the declaration is gone
C5_Witness ==
    /\ Transformed
    /\ \E W \in AppendedNames :
          \E j \in DOMAIN In.Decls :
             /\ IsNamed(In.Decls[j], W)
             /\ ~isWrapperShape(In.Decls[j])
             /\ j > FirstMatch(W)
             /\ loc.visits[j].deleted
             /\ CountNamed(Out.Decls, W) = 1

\* md, resp, err := <name>(ctx, annotatedContext, inboundMarshaler, server,
\*                         interceptor, req, pathParams)
FixedForm(name) ==
    LET id(n) == [k |-> "Ident", Name |-> n]
    IN [k |-> "AssignStmt", Lhs |-> <<id("md"), id("resp"), id("err")>>, Tok |-> ":=",
        Rhs |-> <<[k |-> "CallExpr", Fun |-> id(name),
                   Args |-> <<id("ctx"), id("annotatedContext"), id("inboundMarshaler"),
                              id("server"), id("interceptor"), id("req"),
                              id("pathParams")>>]>>]
\* the last entry of the log for a wrapper name
LastEntry(name) ==
    LET hits == {a \in DOMAIN loc.log : loc.log[a].name = name}
    IN loc.log[CHOOSE a \in hits : \A b \in hits : b <= a]

\* C7: in every declaration kept, an assignment that calls a function F of
\* the file's methods has become the fixed statement that calls
\* interceptor_F; each capture holds an assignment of the file read, as it
\* stood; the entry of the map holds the last one captured for its name, and
\* the wrapper appended holds that assignment in its handler closure.
C7_FixedCallSite ==
    Transformed =>
        /\ \A p \in DOMAIN KeptDecls :
              LET before == AssignsOfList(BodyOf(In.Decls[KeptIdx[p]]))
                  after == AssignsOfList(BodyOf(KeptDecls[p]))
              IN /\ Len(before) = Len(after)
                 /\ \A q \in DOMAIN before :
                       IsSite(before[q]) =>
                           after[q] = FixedForm("interceptor_" \o Callee(before[q]))
        /\ \A a \in DOMAIN loc.log :
              /\ loc.log[a].orig \in Range(AssignsOfFile(In))
              /\ IsSite(loc.log[a].orig)
              /\ loc.log[a].name = "interceptor_" \o Callee(loc.log[a].orig)
        /\ \A W \in DOMAIN loc.functions :
              /\ loc.functions[W].assignStmt = LastEntry(W).orig
              /\ loc.functions[W].funcName = W
              /\ \A j \in DOMAIN AppendedDecls :
                    AppendedDecls[j].Name = W =>
                        wrapperSplice(AppendedDecls[j]) = LastEntry(W).orig

\* C7 witness: a call site written resp, md, err := F(...) with five
\* arguments has been replaced and its wrapper appended
C7_Witness ==
    /\ Transformed
    /\ \E p \in DOMAIN KeptDecls :
          LET before == AssignsOfList(BodyOf(In.Decls[KeptIdx[p]]))
              after == AssignsOfList(BodyOf(KeptDecls[p]))
          IN \E q \in DOMAIN before :
                /\ IsSite(before[q])
                /\ before[q].Lhs[1].Name = "resp"
                /\ Len(before[q].Rhs[1].Args) = 5
                /\ after[q].Lhs[1].Name = "md"
                /\ \E j \in DOMAIN AppendedDecls :
                      wrapperSplice(AppendedDecls[j]) = before[q]

\* an assignment that holds no other assignment
IsPlain(a) == Len(AssignsOf(a)) = 1

\* C8: a declaration that is neither a root function nor, when the walk
\* reaches it, a name of the capture map is kept with its parameters; an
\* assignment of a kept declaration that is not a call site of the file's
\* methods stands unchanged at its place; the declarations kept stand in the
\* order they had, each under its name.
C8_UnrelatedUntouched ==
    Transformed =>
        /\ \A j \in DOMAIN In.Decls :
              (~IsRootDecl(In.Decls[j]) /\ ~loc.visits[j].captured)
                  => ~loc.visits[j].deleted
        /\ Len(KeptDecls) = Len(KeptIdx)
        /\ \A p \in DOMAIN KeptDecls :
              LET before == In.Decls[KeptIdx[p]]
                  after == KeptDecls[p]
                  asBefore == AssignsOfList(BodyOf(before))
                  asAfter == AssignsOfList(BodyOf(after))
              IN /\ after.k = before.k
                 /\ before.k # "FuncDecl" => after = before
                 /\ before.k = "FuncDecl" =>
                       /\ after.Name = before.Name
                       /\ after.Results = before.Results
                       /\ ~IsRootDecl(before) => after.Params = before.Params
                       /\ SitesOfList(before.Body, 1) = <<>> => after.Body = before.Body
                 /\ Len(asBefore) = Len(asAfter)
                 /\ \A q \in DOMAIN asBefore :
                       (~IsSite(asBefore[q]) /\ IsPlain(asBefore[q]))
                           => asAfter[q] = asBefore[q]

\* C8 witness: a walk that rewrote a call site and deleted a declaration has
\* kept a function that is no root, with its body of assignments, and a
\* declaration of variables
C8_Witness ==
    /\ Transformed
    /\ loc.log # <<>>
    /\ \E j \in DOMAIN loc.visits : loc.visits[j].deleted
    /\ \E p \in DOMAIN KeptDecls :
          /\ KeptDecls[p].k = "FuncDecl"
          /\ ~IsRootDecl(KeptDecls[p])
          /\ AssignsOfList(KeptDecls[p].Body) # <<>>
          /\ KeptDecls[p] = In.Decls[KeptIdx[p]]
    /\ \E p \in DOMAIN KeptDecls : KeptDecls[p].k # "FuncDecl"

\* the annotations and the call sites of the file read, in walk order
Marks == SelectSeq(AssignsOfFile(In), LAMBDA a : IsAnnotate(a) \/ IsSite(a))
\* the literals of the annotations of the file read
LitsOfFile ==
    {AnnotateLits(a)[1].Value :
        a \in {x \in Range(AssignsOfFile(In)) : IsAnnotate(x) /\ AnnotateLits(x) # <<>>}}

\* C9: when a file is taken up its scan state is empty and its two indexes
\* are those of its own descriptor, whatever was processed before; a call
\* site that no annotation of its file precedes is captured with the empty
\* method name; the wrappers appended are wrappers of the file's own call
\* sites and carry literals of the file's own annotations.
C9_FreshScanState ==
    /\ pc = "parse" =>
          /\ loc.lastRPCMethodName = ""
          /\ loc.serverType = ""
          /\ DOMAIN loc.functions = {}
          /\ DOMAIN loc.rootFunctions = RootNames(Current)
          /\ loc.currentFileMethods = ExpectedNames(Current)
    /\ (pc = "walk" /\ loc.visits = <<>>) => DOMAIN loc.functions = {}
    /\ Transformed =>
          /\ (Marks # <<>> /\ IsSite(Marks[1])) => loc.log[1].rpc = ""
          /\ \A a \in DOMAIN loc.log : loc.log[a].orig \in Range(AssignsOfFile(In))
          /\ AppendedNames \subseteq {WrapperName(n) : n \in ExpectedNames(Current)}
          /\ \A j \in DOMAIN AppendedDecls :
                wrapperLiteral(AppendedDecls[j]) \in LitsOfFile \cup {""}

\* C9 witness: the second file of a run, taken up after the first was
\* walked with a method name and written, has a call site that no
\* annotation precedes, and its wrapper carries the empty name
C9_Witness ==
    /\ Transformed
    /\ i = 2
    /\ Len(hist.written) = 1
    /\ Marks # <<>> /\ IsSite(Marks[1])
    /\ \E j \in DOMAIN AppendedDecls :
          /\ AppendedDecls[j].Name = WrapperName(Callee(Marks[1]))
          /\ wrapperLiteral(AppendedDecls[j]) = ""

\* C10 as stated: after a parse failure nothing more is parsed or written
\* in the run.
C10_AbortOnFirstFailure ==
    \A a \in DOMAIN hist.parsed :
        ~hist.parsed[a].ok =>
            /\ Len(hist.parsed) = a
            /\ \A w \in Range(hist.written) :
                  \E b \in 1..(a - 1) : hist.parsed[b].name = w.name

\* C10 amended: a parse failure ends the processing of that file only: the
\* files of the list are parsed one after the other whatever happened to
\* the earlier ones, the run ends when all of them were taken up, and a
\* file is written only if its own parse succeeded.
C10_FailureSkipsOneFile ==
    /\ \A a \in DOMAIN hist.parsed :
          /\ a <= Len(protoFileList)
          /\ hist.parsed[a].name = generatedFileNameOf(OutDir, protoFileList[a].filename)
          /\ hist.parsed[a].ok <=> disk[hist.parsed[a].name].k = "File"
    /\ pc \in {"loop", "exit"} /\ i >= 1 => Len(hist.parsed) = i - 1
    /\ pc = "exit" /\ i >= 1 => Len(hist.parsed) = Len(protoFileList)
    /\ \A w \in Range(hist.written) :
          \E a \in DOMAIN hist.parsed : hist.parsed[a].name = w.name /\ hist.parsed[a].ok

\* C10 witness: the run is over; the first file failed to parse, the second
\* was parsed and written
C10_Witness ==
    /\ pc = "exit"
    /\ Len(hist.parsed) = 2
    /\ ~hist.parsed[1].ok
    /\ hist.parsed[2].ok
    /\ \E w \in Range(hist.written) : w.name = hist.parsed[2].name

\* the calls the wrapper body made itself
ByWrapper == SelectSeq(frame.trace, LAMBDA e : e.by = "wrapper")

\* C6: once the wrapper is past its conditional it has made exactly one call
\* of its own.  With a nil interceptor that call is handler(ctx, req) and no
\* interceptor was called; otherwise it is (*interceptor)(ctx, req,
\* &grpc.UnaryServerInfo{Server: server, FullMethod: literal}, handler).
\* Either way handlerResponseItem and err hold what the call returned; the
\* wrapper never dereferences a nil interceptor.
C6_InterceptorRouting ==
    /\ frame.status # "panic"
    /\ (frame.status \in {"running", "returned"} /\ frame.ip > 4) =>
          /\ Len(ByWrapper) = 1
          /\ LET call == ByWrapper[1] IN
             /\ IF frame.interceptor = "nil"
                THEN /\ call.fn = "handler"
                     /\ call.args = <<[t |-> "ctx"], [t |-> "httpRequest"]>>
                     /\ \A j \in DOMAIN frame.trace : frame.trace[j].fn # "interceptor"
                ELSE /\ call.fn = "interceptor"
                     /\ Len(call.args) = 4
                     /\ call.args[1] = [t |-> "ctx"]
                     /\ call.args[2] = [t |-> "httpRequest"]
                     /\ call.args[3].t = "UnaryServerInfo"
                     /\ DOMAIN call.args[3].fields = {"Server", "FullMethod"}
                     /\ call.args[3].fields["Server"] = [t |-> "server"]
                     /\ call.args[3].fields["FullMethod"] =
                           [t |-> "string",
                            v |-> SubSeq(frame.funcData.rpcMethodName, 2,
                                         Len(frame.funcData.rpcMethodName) - 1)]
                     /\ call.args[4].t = "closure"
                     /\ call.args[4] = frame.scope["handler"]
             /\ frame.scope["handlerResponseItem"] = call.ret.val
             /\ frame.scope["err"] = call.ret.err

\* C6 witness: a wrapper given an interceptor that calls the handler has
\* returned the response of the original function
C6_Witness ==
    /\ frame.status = "returned"
    /\ frame.interceptor = "passthrough"
    /\ Len(frame.trace) = 3
    /\ frame.trace[1].fn = "interceptor" /\ frame.trace[1].by = "wrapper"
    /\ frame.trace[2].fn = "handler" /\ frame.trace[2].by = "interceptor"
    /\ frame.trace[1].args[3].fields["FullMethod"].v = "/S/B"
    /\ frame.result["resp"] = [t |-> "response"]
    /\ frame.result["err"] = [t |-> "nil"]

\* a step that changes the disk or records a write
Writes == disk' # disk \/ hist'.written # hist.written

\* C11: the disk changes only in the write step of a file whose parse
\* succeeded, whose walk and wrapper loop are complete and whose text was
\* printed and formatted; the step puts the formatted text in that one file;
\* a file is written at most once and parsed at most once in a run, so a
\* step that failed left the file as it was and is not tried again.
C11_WriteOnlyAfterFullTransform ==
    /\ [][Writes =>
            /\ pc = "write"
            /\ hist.parsed # <<>>
            /\ hist.parsed[Len(hist.parsed)] =
                  [run |-> run, name |-> loc.generatedFileName, ok |-> TRUE]
            /\ Len(loc.visits) = Len(InputOf(loc).Decls)
            /\ loc.appended = DOMAIN loc.functions
            /\ "fmt" \in loc.fileAst.Imports
            /\ ~formatSourceFails(loc.fileAst)
            /\ loc.formatted = printerFprint(loc.fileAst)
            /\ disk' = [disk EXCEPT ![loc.generatedFileName] = loc.formatted]
            /\ hist'.written = Append(hist.written, [run |-> run, name |-> loc.generatedFileName])
            /\ \A w \in Range(hist.written) :
                  ~(w.run = run /\ w.name = loc.generatedFileName)]_vars
    /\ [](\A a, b \in DOMAIN hist.parsed :
             (a # b /\ hist.parsed[a].run = hist.parsed[b].run)
                 => hist.parsed[a].name # hist.parsed[b].name)

\* C11 witness: the first file was parsed but a later step failed, and its
\* file on disk holds no wrapper; the second file was written
C11_Witness ==
    /\ pc = "exit"
    /\ Len(hist.parsed) = 2
    /\ hist.parsed[1].ok
    /\ Len(hist.written) = 1
    /\ hist.written[1].name = hist.parsed[2].name
    /\ disk[hist.parsed[1].name].k = "File"
    /\ \A j \in DOMAIN disk[hist.parsed[1].name].Decls :
          ~isWrapperShape(disk[hist.parsed[1].name].Decls[j])
    /\ \E j \in DOMAIN disk[hist.parsed[2].name].Decls :
          isWrapperShape(disk[hist.parsed[2].name].Decls[j])

\* the wrappers of a name in the file read
OldWrappers(name) ==
    {j \in DOMAIN In.Decls : isWrapperShape(In.Decls[j]) /\ In.Decls[j].Name = name}

\* C12: when a run reads the file an earlier run wrote, and the annotations
\* of the file carry two or more different literals, every wrapper it
\* appends carries the FullMethod literal the wrapper of that name had in
\* the file read.
C12_LiteralSurvivesRerun ==
    (Transformed /\ WrittenBefore /\ Cardinality(LitsOfFile) >= 2) =>
        \A j \in DOMAIN AppendedDecls :
            \A h \in OldWrappers(AppendedDecls[j].Name) :
                wrapperLiteral(AppendedDecls[j]) = wrapperLiteral(In.Decls[h])

\* the assignments of the declarations visited so far, in walk order
VisitedAssigns ==
    Concat([j \in 1..Len(loc.visits) |-> AssignsOfList(BodyOf(In.Decls[j]))])
\* an annotation that carries a literal
Qualifies(a) == IsAnnotate(a) /\ AnnotateLits(a) # <<>>
\* the last literal of the last such annotation among the first n
\* assignments, "" when there is none
RECURSIVE LastLit(_, _)
LastLit(as, n) ==
    IF n = 0 THEN ""
    ELSE IF Qualifies(as[n]) THEN AnnotateLits(as[n])[Len(AnnotateLits(as[n]))].Value
    ELSE LastLit(as, n - 1)
\* the places of the call sites among the assignments visited
SitesAmong(as) == SelectSeq([q \in DOMAIN as |-> q], LAMBDA q : IsSite(as[q]))

\* C13: every match stores the literal of the latest annotation the walk
\* has passed in the file, "" when it has passed none; a match does not
\* clear it.  The wrappers appended are those of the matched call sites, so
\* an annotation that no call site follows yields none.
C13_NameNeverConsumed ==
    pc = "walk" =>
        /\ LET as == VisitedAssigns
               sites == SitesAmong(as)
           IN /\ Len(loc.log) = Len(sites)
              /\ \A a \in DOMAIN loc.log :
                    /\ loc.log[a].orig = as[sites[a]]
                    /\ loc.log[a].rpc = LastLit(as, sites[a] - 1)
        /\ \A W \in DOMAIN loc.functions : loc.functions[W].rpcMethodName = LastEntry(W).rpc
        /\ Transformed =>
              /\ AppendedNames = {loc.log[a].name : a \in DOMAIN loc.log}
              /\ \A j \in DOMAIN AppendedDecls :
                    wrapperLiteral(AppendedDecls[j]) = LastEntry(AppendedDecls[j].Name).rpc

\* C13 witness: two call sites of different functions with one annotation
\* before them have both been captured with its literal
C13_Witness ==
    /\ Transformed
    /\ Len(loc.log) = 2
    /\ loc.log[1].callee # loc.log[2].callee
    /\ loc.log[1].rpc # ""
    /\ loc.log[1].rpc = loc.log[2].rpc
    /\ LET as == VisitedAssigns
       IN Cardinality({q \in 1..SitesAmong(as)[2] : Qualifies(as[q])}) = 1

\* C14: after every declaration visited, lastRPCMethodName is the last
\* literal argument of the last assignment passed whose single right-hand
\* side calls runtime.AnnotateIncomingContext with a literal among its
\* arguments, and "" before the first: nothing else changes it.
C14_OnlyAnnotationSetsName ==
    /\ pc = "parse" => loc.lastRPCMethodName = ""
    /\ pc = "walk" =>
          LET as == VisitedAssigns
          IN loc.lastRPCMethodName = LastLit(as, Len(as))

\* C14 witness: the walk has passed a call of AnnotateIncomingContext that
\* is no annotation, a call of runtime.AnnotateContext and a call site, and
\* holds the literal of an annotation
C14_Witness ==
    /\ pc = "walk"
    /\ loc.lastRPCMethodName # ""
    /\ loc.log # <<>>
    /\ \E a \in Range(VisitedAssigns) :
          /\ ~Qualifies(a)
          /\ a.Rhs[1].k = "CallExpr"
          /\ a.Rhs[1].Fun.k = "SelectorExpr"
          /\ a.Rhs[1].Fun.Sel = "AnnotateIncomingContext"
    /\ \E a \in Range(VisitedAssigns) :
          /\ a.Rhs[1].k = "CallExpr"
          /\ a.Rhs[1].Fun.k = "SelectorExpr"
          /\ a.Rhs[1].Fun.Sel = "AnnotateContext"
          /\ \E x \in Range(a.Rhs[1].Args) : x.k = "BasicLit"

\* the type of the parameter named server of a declaration when that type
\* is a plain identifier, "" otherwise
ServerTypeOf(decl) ==
    LET hits == {a \in DOMAIN decl.Params :
                    "server" \in Range(decl.Params[a].Names) /\ decl.Params[a].Type.k = "Ident"}
    IN IF hits = {} THEN ""
       ELSE decl.Params[CHOOSE a \in hits : \A b \in hits : a <= b].Type.Name
\* the hint after the first n declarations of the file read
RECURSIVE HintAfter(_)
HintAfter(n) ==
    IF n = 0 THEN ""
    ELSE IF IsRootDecl(In.Decls[n]) THEN ServerTypeOf(In.Decls[n])
    ELSE HintAfter(n - 1)

\* C15: during the walk serverType is what the last root function visited
\* gives: the type of its parameter named server when that is a plain
\* identifier, "" otherwise, also after an earlier root function gave a
\* type; the walk goes on over every declaration; every wrapper appended
\* for the file has that one type for its server parameter.
C15_LastRootGivesServerType ==
    /\ pc = "walk" => loc.serverType = HintAfter(Len(loc.visits))
    /\ Transformed =>
          \A j \in DOMAIN AppendedDecls :
              /\ AppendedDecls[j].Params[3].Names = <<"server">>
              /\ AppendedDecls[j].Params[3].Type =
                    [k |-> "Ident", Name |-> HintAfter(Len(In.Decls))]

\* C15 witness: a file of two services whose first root function has a
\* server of a plain type and whose second has one of a qualified type: the
\* wrappers of both services are appended with the empty type
C15_Witness ==
    /\ Transformed
    /\ Len(AppendedDecls) = 2
    /\ \E a, b \in DOMAIN In.Decls :
          /\ a < b
          /\ IsRootDecl(In.Decls[a]) /\ ServerTypeOf(In.Decls[a]) # ""
          /\ IsRootDecl(In.Decls[b]) /\ ServerTypeOf(In.Decls[b]) = ""
          /\ \E f \in Range(In.Decls[b].Params) :
                "server" \in Range(f.Names) /\ f.Type.k = "SelectorExpr"
    /\ \A j \in DOMAIN AppendedDecls : AppendedDecls[j].Params[3].Type.Name = ""

StartsWith(str, prefix) ==
    Len(str) >= Len(prefix) /\ SubSeq(str, 1, Len(prefix)) = prefix
\* a file is being processed
InFile == pc \in {"walk", "format", "print2", "write"}

\* C16: while a file is processed, every key of the capture map is
\* "interceptor_" followed by a call-site name of the file's methods and
\* the entry's funcName is its key; every capture was made at a call of
\* such a name; no key starts with interceptor_interceptor_; an assignment
\* that calls a wrapper name stands as it was after the walk, in every run.
C16_KeysAreWrapperNames ==
    InFile =>
        /\ \A W \in DOMAIN loc.functions :
              /\ \E n \in ExpectedNames(Current) : W = "interceptor_" \o n
              /\ loc.functions[W].funcName = W
              /\ ~StartsWith(W, "interceptor_interceptor_")
        /\ \A a \in DOMAIN loc.log :
              /\ loc.log[a].callee \in ExpectedNames(Current)
              /\ loc.log[a].name \in DOMAIN loc.functions
        /\ Transformed =>
              \A p \in DOMAIN KeptDecls :
                  LET before == AssignsOfList(BodyOf(In.Decls[KeptIdx[p]]))
                      after == AssignsOfList(BodyOf(KeptDecls[p]))
                  IN \A q \in DOMAIN before :
                        (IsIdentCall(before[q]) /\ StartsWith(Callee(before[q]), "interceptor_"))
                            => after[q] = before[q]

\* C16 witness: a second run has walked a root function that calls a
\* wrapper, and has captured the call in the old wrapper
C16_Witness ==
    /\ Transformed
    /\ run = 2
    /\ WrittenBefore
    /\ loc.functions # EmptyMap
    /\ \E p \in DOMAIN KeptDecls :
          /\ IsRootDecl(KeptDecls[p])
          /\ \E a \in Range(AssignsOfList(KeptDecls[p].Body)) :
                /\ IsIdentCall(a)
                /\ Callee(a) \in DOMAIN loc.functions

\* the places, among the assignments as, of the calls of the function F
PlacesOf(as, F) == {q \in DOMAIN as : IsIdentCall(as[q]) /\ Callee(as[q]) = F}
Last(places) == CHOOSE q \in places : \A r \in places : r <= q

\* C17: when a function F of the file's methods is called by k > 1
\* assignments of the file read, each of them is captured and those in the
\* declarations kept are rewritten; the map has one entry for interceptor_F
\* and one wrapper of that name is appended, which holds the assignment of
\* the last of the k call sites of the walk and the method name current
\* there.
C17_LastCallSiteWins ==
    Transformed =>
        LET as == AssignsOfFile(In) IN
        \A F \in ExpectedNames(Current) :
            Cardinality(PlacesOf(as, F)) > 1 =>
                LET W == "interceptor_" \o F
                    last == Last(PlacesOf(as, F))
                IN /\ Cardinality({a \in DOMAIN loc.log : loc.log[a].callee = F})
                         = Cardinality(PlacesOf(as, F))
                   /\ \A p \in DOMAIN KeptDecls :
                         LET before == AssignsOfList(BodyOf(In.Decls[KeptIdx[p]]))
                             after == AssignsOfList(BodyOf(KeptDecls[p]))
                         IN \A q \in PlacesOf(before, F) : after[q] = FixedForm(W)
                   /\ W \in DOMAIN loc.functions
                   /\ loc.functions[W].assignStmt = as[last]
                   /\ loc.functions[W].rpcMethodName = LastLit(as, last - 1)
                   /\ CountNamed(AppendedDecls, W) = 1
                   /\ \A j \in DOMAIN AppendedDecls :
                         AppendedDecls[j].Name = W =>
                             /\ wrapperSplice(AppendedDecls[j]) = as[last]
                             /\ wrapperLiteral(AppendedDecls[j]) = LastLit(as, last - 1)

\* C17 witness: a function is called at two places of a root function,
\* after annotations of different literals; its one wrapper carries the
\* second literal
C17_Witness ==
    /\ Transformed
    /\ LET as == AssignsOfFile(In) IN
       \E F \in ExpectedNames(Current) :
          /\ Cardinality(PlacesOf(as, F)) = 2
          /\ \A q \in PlacesOf(as, F) : LastLit(as, q - 1) # ""
          /\ Cardinality({LastLit(as, q - 1) : q \in PlacesOf(as, F)}) = 2
          /\ CountNamed(AppendedDecls, "interceptor_" \o F) = 1
          /\ CountNamed(KeptDecls, "interceptor_" \o F) = 0
          /\ WrapperLits("interceptor_" \o F) = {LastLit(as, Last(PlacesOf(as, F)) - 1)}

\* the one call the wrapper body made, once it is past its conditional
WrapperCall == ByWrapper[1]
PastCall == frame.status \in {"running", "returned"} /\ frame.ip > 4

\* C18: when the interceptor or the handler has returned a non-nil error,
\* the wrapper returns in its next statement: the type assertion is not
\* made (data and ok are never declared), md and resp are returned zero and
\* the error returned is the one the call returned.
C18_ErrorShortCircuit ==
    (PastCall /\ WrapperCall.ret.err # [t |-> "nil"]) =>
        /\ frame.ip <= 6
        /\ "data" \notin DOMAIN frame.scope
        /\ "ok" \notin DOMAIN frame.scope
        /\ frame.ip = 6 =>
              /\ frame.status = "returned"
              /\ frame.result["md"] = [t |-> "nil"]
              /\ frame.result["resp"] = [t |-> "nil"]
              /\ frame.result["err"] = WrapperCall.ret.err
              /\ frame.result["err"].t = "error"

\* C18 witness: the interceptor refused the call and the wrapper returned
\* its error; the handler was not called
C18_Witness ==
    /\ frame.status = "returned"
    /\ frame.interceptor = "deny"
    /\ Len(frame.trace) = 1
    /\ frame.result["err"] = [t |-> "error", v |-> "denied"]
    /\ frame.result["md"] = [t |-> "nil"]

\* C19: when the call returned a nil error and a value that is no
\* handlerResponse, the wrapper returns after the type assertion with zero
\* md, zero resp and a nil error; when the value is a handlerResponse it
\* returns the md and resp of that record and a nil error.  A call of the
\* handler closure returns a nil value together with a non-nil error
\* exactly when its request argument is no *http.Request; otherwise it
\* returns a handlerResponse and the error of the original function.
C19_TypeAssertion ==
    /\ (frame.status = "returned" /\ WrapperCall.ret.err = [t |-> "nil"]) =>
          IF WrapperCall.ret.val.t = "handlerResponse"
          THEN /\ frame.ip = 9
               /\ frame.result["md"] = WrapperCall.ret.val.fields["md"]
               /\ frame.result["resp"] = WrapperCall.ret.val.fields["resp"]
               /\ frame.result["err"] = [t |-> "nil"]
          ELSE /\ frame.ip = 8
               /\ frame.scope["ok"] = [t |-> "bool", v |-> FALSE]
               /\ frame.result["md"] = [t |-> "nil"]
               /\ frame.result["resp"] = [t |-> "nil"]
               /\ frame.result["err"] = [t |-> "nil"]
    /\ frame.status \in {"running", "returned"} =>
          \A j \in DOMAIN frame.trace :
              frame.trace[j].fn = "handler" =>
                  LET e == frame.trace[j] IN
                  /\ (e.ret.val = [t |-> "nil"] /\ e.ret.err # [t |-> "nil"])
                        <=> e.args[2].t # "httpRequest"
                  /\ e.args[2].t = "httpRequest" =>
                        /\ e.ret.val.t = "handlerResponse"
                        /\ j < Len(frame.trace)
                        /\ frame.trace[j + 1].by = "handler"
                        /\ e.ret.err = frame.trace[j + 1].ret.err
                        /\ e.ret.val.fields["resp"] = frame.trace[j + 1].ret.val

\* C19 witness: the interceptor answered by itself with a value of another
\* type and no error; the wrapper returned nothing and no error
C19_Witness ==
    /\ frame.status = "returned"
    /\ frame.interceptor = "replace"
    /\ WrapperCall.ret.val = [t |-> "foreign"]
    /\ frame.ip = 8
    /\ frame.result["resp"] = [t |-> "nil"]
    /\ frame.result["err"] = [t |-> "nil"]

\* the positions of the request's proto-file list that hold a file with a
\* service whose name file_to_generate lists
Wanted ==
    {j \in DOMAIN request.protoFile :
        /\ request.protoFile[j].service # <<>>
        /\ \E g \in DOMAIN request.fileToGenerate :
              request.fileToGenerate[g] = request.protoFile[j].name}
\* the proto files of the catalogue that the request does not select
NotWanted == {f \in Catalogue : \A j \in Wanted : request.protoFile[j] # f}
\* the gateway files the run has taken up, parsed or written so far
Handled ==
    {hist.parsed[j].name : j \in DOMAIN hist.parsed}
        \cup {hist.written[j].name : j \in DOMAIN hist.written}
        \cup (IF pc \in {"main", "loop", "exit"} THEN {} ELSE {loc.generatedFileName})

\* C20: once the request is decoded, the list handed to processSingleProto
\* holds exactly the files of the request's proto-file list that have a
\* service and are named in file_to_generate, each once, in the order of the
\* proto-file list, with their services; a file without services, or one
\* that file_to_generate does not name, is never parsed, transformed or
\* written: its gateway file stays as it was.
C20_FileSelection ==
    /\ i >= 1 =>
          /\ Cardinality(Wanted) = Len(protoFileList)
          /\ \A j \in Wanted :
                \E p \in DOMAIN protoFileList :
                   /\ protoFileList[p].filename = request.protoFile[j].name
                   /\ protoFileList[p].services = request.protoFile[j].service
                   /\ p = Cardinality({w \in Wanted : w <= j})
          /\ \A p, q \in DOMAIN protoFileList :
                p # q => protoFileList[p].filename # protoFileList[q].filename
    /\ i = 0 => Handled = {}
    /\ \A f \in NotWanted :
          /\ GatewayName(f) \notin Handled
          /\ disk[GatewayName(f)] = Untouched(f)

\* C20 witness: a.proto stands in the proto-file list as a dependency only,
\* file_to_generate names b.proto twice, and the run ended having parsed and
\* written the gateway of b.proto once and nothing else
C20_Witness ==
    /\ pc = "exit"
    /\ request.protoFile = <<ProtoA, ProtoB>>
    /\ request.fileToGenerate = <<ProtoB.name, ProtoB.name>>
    /\ Len(protoFileList) = 1
    /\ Len(hist.parsed) = 1
    /\ Len(hist.written) = 1
    /\ hist.written[1].name = GatewayName(ProtoB)

====
